---- MODULE Spec2Model ----
(***************************************************************************)
(* The fetch-and-cache client of the SpaceX launch tracker                 *)
(* (src/spacex/api_client.py): a file-backed response cache with expiry on *)
(* read and age-based eviction, and a GET with one retry in front of it.   *)
(*                                                                         *)
(* Time is in whole seconds.  A cache file is its modification time and    *)
(* its JSON text; the text is kept as the JSON tree json.dump produced.    *)
(* The program is single-threaded, so every method is one atomic action;   *)
(* what a call returned, raised and did on the network is kept in `last`.  *)
(***************************************************************************)
EXTENDS Integers, Sequences, FiniteSets, TLC

VARIABLES
    files,               \* the cache directory: file name -> file or NoFile
    now,                 \* time.time()
    cache_expiry,        \* self.cache_expiry
    max_cache_age_days,  \* self.max_cache_age_days
    steps,               \* how many times the clock has advanced, or a
                         \* front end or an accessor was called
    last,                \* the most recent call: its inputs and its outcome
    dir_exists,          \* os.path.isdir(self.cache_dir)
    tracker_data_repo,   \* SpaceXTracker.data_repo
    dashboard_data_repo, \* SpaceXDashboard.data_repo
    session_state        \* st.session_state of the dashboard session

\* The state of the two front ends.
front == <<tracker_data_repo, dashboard_data_repo, session_state>>

vars == <<files, now, cache_expiry, max_cache_age_days, steps, last,
          dir_exists, front>>

---------------------------------------------------------------------------
\* Bounds of the model.

\* The clock advances at most this many times (ticks and retry pauses).
MaxSteps == 2

\* time.time() when the model starts, far enough from 0 for old files.
StartTime == 1000000

\* The amounts of time that pass between two calls.
TickSteps == {1, 86400}

\* Constructor arguments tried.
CacheExpiryChoices == {1}
MaxCacheAgeDaysChoices == {0, 1}

\* Arguments tried for a direct invalidate_old_cache(max_age_days).
MaxAgeDaysArgs == {0, 1, 7}

\* os.utime: the modification time given to a file that is made to look
\* old (the test's "10 days old"), more than 7 days before StartTime.
OldTime == 0

\* The endpoints whose cache file os.utime is tried on.
UtimeEndpoints == {<<"/", "rockets">>, <<"/", "launches">>}

\* The endpoints _get_cache_path is tried on by itself: every sequence of
\* at most MaxPathLen of these separators, resource names and ids.
MaxPathLen == 4
PathTokens == {"/", "_", "launches", "rockets", "test", "endpoint",
               "5eb87d", "5e9d0d"}

---------------------------------------------------------------------------
\* Program constants.

SecondsPerDay == 86400
NumAttempts == 2
\* `if attempt == 0` for `if attempt == 1`: gives up after the first failure.
LastAttempt_first == NumAttempts - NumAttempts

LastAttempt == 1
RetryDelay == 1
DefaultTimestamp == 0
\* invalidate_old_cache(self, max_age_days: int = 7)
DefaultMaxAgeDays == 7
\* __init__(self, cache_dir, cache_expiry: int = 3600,
\*          max_cache_age_days: int = 1)
DefaultCacheExpiry == 3600
DefaultMaxCacheAgeDays == 1

---------------------------------------------------------------------------
\* Python values and their JSON text.

None == [py |-> "None"]
PyList(s) == [py |-> "list", items |-> s]
PyTuple(s) == [py |-> "tuple", items |-> s]
PyDict(f) == [py |-> "dict", fields |-> f]

Falcon9 == [id |-> "1", name |-> "Falcon 9"]

\* What the remote service returns for a resource: a sequence of flat
\* records or one flat record.
Responses == {PyList(<<>>), PyDict(Falcon9)}

\* What a caller may hand to _write_cache directly (data: Any).
WriteValues == Responses \cup {PyTuple(<<>>)}

\* json.dump of a value: lists and tuples both become arrays.
json_dump(v) ==
    CASE v.py = "None" -> [json |-> "null"]
      [] v.py = "list" -> [json |-> "array", items |-> v.items]
      [] v.py = "tuple" -> [json |-> "array", items |-> v.items]
      [] v.py = "dict" -> [json |-> "object", fields |-> v.fields]

\* json.load of a JSON text: arrays become lists.
json_load(j) ==
    CASE j.json = "null" -> None
      [] j.json = "array" -> PyList(j.items)
      [] j.json = "object" -> PyDict(j.fields)

\* dict.get(key, default)
Get(d, key, default) ==
    IF key \in DOMAIN d THEN d[key] ELSE default

---------------------------------------------------------------------------
\* Endpoints and cache file names.  An endpoint is a sequence of path
\* segments and separator characters.

Rockets == <<"/", "rockets">>
Launches == <<"/", "launches">>
LaunchesSlash == <<"/", "launches", "/">>

Endpoints == {Rockets, Launches, LaunchesSlash}

\* clear_cache(None); a falsy endpoint
NoEndpoint == <<>>

\* str.replace("/", "_")
Replace(s) == [i \in 1..Len(s) |-> IF s[i] = "/" THEN "_" ELSE s[i]]

RECURSIVE LStrip(_)
LStrip(s) == IF s # <<>> /\ Head(s) = "_" THEN LStrip(Tail(s)) ELSE s

RECURSIVE RStrip(_)
RStrip(s) ==
    IF s # <<>> /\ s[Len(s)] = "_" THEN RStrip(SubSeq(s, 1, Len(s) - 1)) ELSE s

\* str.strip("_")
Strip(s) == RStrip(LStrip(s))

\* safe_endpoint without its strip("_").
SafeEndpoint_nostrip(endpoint) == Replace(endpoint)

\* safe_endpoint = endpoint.replace("/", "_").strip("_"), then the file
\* name f"{safe_endpoint}.json"
SafeEndpoint(endpoint) == Strip(Replace(endpoint))
FileName(endpoint) == SafeEndpoint(endpoint) \o <<".json">>

\* The endpoints a caller may pass to _get_cache_path.
PathEndpoints == UNION {[1..n -> PathTokens] : n \in 1..MaxPathLen}

\* The endpoints the accessors build: "/<resource>", "/launches/past",
\* "/launches/upcoming" and "/<resource>/<id>" with an id of the service.
Resources == {"launches", "rockets", "launchpads"}
Ids == {"5eb87d", "5e9d0d"}
AccessorEndpoints ==
    {<<"/", resource>> : resource \in Resources}
    \cup {<<"/", "launches", "/", "past">>, <<"/", "launches", "/", "upcoming">>}
    \cup {<<"/", resource, "/", id>> : resource \in Resources, id \in Ids}

\* The file names of the endpoints, computed once.
CachePaths ==
    [endpoint \in Endpoints \cup PathEndpoints \cup AccessorEndpoints |->
        FileName(endpoint)]

_get_cache_path(endpoint) == CachePaths[endpoint]

\* str.endswith('.json')
EndsWithJson(name) == name # <<>> /\ name[Len(name)] = ".json"

\* A file in the cache directory that is no cache entry.
ForeignName == <<"README">>

FileNames ==
    {_get_cache_path(e) : e \in Endpoints \cup AccessorEndpoints}
    \cup {ForeignName}

NoFile == [exists |-> FALSE]

File(m, text) == [exists |-> TRUE, mtime |-> m, text |-> text]

\* os.path.exists
Exists(fs, name) == fs[name].exists

\* os.listdir
ListDir(fs) == {name \in FileNames : fs[name].exists}

\* os.remove of a set of files
Remove(fs, names) ==
    [name \in FileNames |-> IF name \in names THEN NoFile ELSE fs[name]]

---------------------------------------------------------------------------
\* What a call gives back: a value, or an exception.

Return(v, fs) == [value |-> v, exc |-> "none", files |-> fs]
Raise(x, fs) == [value |-> None, exc |-> x, files |-> fs]

\* A number and a string in a JSON text.
JsonNumber(n) == [json |-> "number", n |-> n]
JsonString(s) == [json |-> "string", s |-> s]

\* The text with the value under 'value', a key _read_cache does not read.
CacheText_value(timestamp, data) ==
    [json |-> "object",
     fields |-> [timestamp |-> JsonNumber(timestamp),
                 value |-> json_dump(data)]]

\* The text _write_cache dumps: {'timestamp': ..., 'data': ...}
CacheText(timestamp, data) ==
    [json |-> "object",
     fields |-> [timestamp |-> JsonNumber(timestamp),
                 data |-> json_dump(data)]]

\* _read_cache that removes the file of an expired entry.
_read_cache_evict(fs, t, expiry, endpoint) ==
    LET cache_path == _get_cache_path(endpoint) IN
    IF ~Exists(fs, cache_path) THEN Return(None, fs)
    ELSE
        LET cached_data == fs[cache_path].text.fields
            timestamp == Get(cached_data, "timestamp",
                             JsonNumber(DefaultTimestamp))
        IN  IF t - timestamp.n > expiry
            THEN Return(None, Remove(fs, {cache_path}))
            ELSE Return(json_load(cached_data.data), fs)

\* SpaceXAPIClient._read_cache at time t with self.cache_expiry = expiry;
\* gives the value, the exception and the directory as the call leaves it.
_read_cache(fs, t, expiry, endpoint) ==
    LET cache_path == _get_cache_path(endpoint) IN
    IF ~Exists(fs, cache_path) THEN Return(None, fs)
    ELSE
        LET text == fs[cache_path].text IN
        IF text.json = "invalid" THEN Return(None, fs)
        ELSE IF text.json # "object" THEN Raise("AttributeError", fs)
        ELSE
            LET cached_data == text.fields
                timestamp == Get(cached_data, "timestamp",
                                 JsonNumber(DefaultTimestamp))
            IN  IF timestamp.json # "number" THEN Raise("TypeError", fs)
                ELSE IF t - timestamp.n > expiry THEN Return(None, fs)
                ELSE IF "data" \in DOMAIN cached_data
                     THEN Return(json_load(cached_data.data), fs)
                     ELSE Return(None, fs)

\* _write_cache without its except clause: the OSError of open reaches the
\* caller.
_write_cache_raising(fs, t, endpoint, data, writable) ==
    LET cache_path == _get_cache_path(endpoint)
        cache_data == CacheText(t, data)
    IN  IF writable
        THEN Return(None, [fs EXCEPT ![cache_path] = File(t, cache_data)])
        ELSE Raise("OSError", fs)

\* SpaceXAPIClient._write_cache at time t; writable: open(cache_path, 'w')
\* succeeds (otherwise the OSError is logged and swallowed).
_write_cache(fs, t, endpoint, data, writable) ==
    LET cache_path == _get_cache_path(endpoint)
        cache_data == CacheText(t, data)
    IN  IF writable
        THEN Return(None, [fs EXCEPT ![cache_path] = File(t, cache_data)])
        ELSE Return(None, fs)

\* invalidate_old_cache with the age taken in seconds, not in days.
invalidate_old_cache_seconds(fs, t, max_age_days, undeletable) ==
    LET cutoff_time == t - max_age_days
        old == {filename \in ListDir(fs) :
                   /\ EndsWithJson(filename)
                   /\ fs[filename].mtime < cutoff_time}
    IN  Return(None, Remove(fs, old \ undeletable))

\* invalidate_old_cache that stops after the first file it removes.
invalidate_old_cache_one(fs, t, max_age_days, undeletable) ==
    LET cutoff_time == t - (max_age_days * SecondsPerDay)
        old == {filename \in ListDir(fs) :
                   /\ EndsWithJson(filename)
                   /\ fs[filename].mtime < cutoff_time}
    IN  IF old \ undeletable = {}
        THEN Return(None, fs)
        ELSE Return(None, Remove(fs, {CHOOSE filename \in old \ undeletable :
                                         TRUE}))

\* invalidate_old_cache with os.remove outside a try: the OSError of a file
\* that cannot be removed ends the pass.
invalidate_old_cache_unguarded(fs, t, max_age_days, undeletable) ==
    LET cutoff_time == t - (max_age_days * SecondsPerDay)
        old == {filename \in ListDir(fs) :
                   /\ EndsWithJson(filename)
                   /\ fs[filename].mtime < cutoff_time}
    IN  IF old \cap undeletable # {}
        THEN Raise("OSError", fs)
        ELSE Return(None, Remove(fs, old))

\* SpaceXAPIClient.invalidate_old_cache at time t; undeletable: the files
\* whose os.remove raises OSError (logged, the pass goes on).
invalidate_old_cache(fs, t, max_age_days, undeletable) ==
    LET cutoff_time == t - (max_age_days * SecondsPerDay)
        old == {filename \in ListDir(fs) :
                   /\ EndsWithJson(filename)
                   /\ fs[filename].mtime < cutoff_time}
    IN  Return(None, Remove(fs, old \ undeletable))

\* The first definition of SpaceXAPIClient.clear_cache, which the class
\* body then replaces by the second one.
clear_cache_first(fs, t, max_age_days, endpoint) ==
    LET cleared ==
            IF endpoint # NoEndpoint
            THEN LET cache_path == _get_cache_path(endpoint) IN
                 IF Exists(fs, cache_path) THEN Remove(fs, {cache_path}) ELSE fs
            ELSE Remove(fs, {filename \in ListDir(fs) : EndsWithJson(filename)})
    IN  invalidate_old_cache(cleared, t, max_age_days, {}).files

\* clear_cache followed by the eviction pass, as the first definition has it.
clear_cache_evicting(fs, t, max_age_days, endpoint) ==
    clear_cache_first(fs, t, max_age_days, endpoint)

\* clear_cache() that removes the files that are no cache entries.
clear_cache_not_json(fs, t, max_age_days, endpoint) ==
    IF endpoint # NoEndpoint
    THEN LET cache_path == _get_cache_path(endpoint) IN
         IF Exists(fs, cache_path) THEN Remove(fs, {cache_path}) ELSE fs
    ELSE Remove(fs, {filename \in ListDir(fs) : ~EndsWithJson(filename)})

\* SpaceXAPIClient.clear_cache: the second definition, the one in effect.
clear_cache(fs, t, max_age_days, endpoint) ==
    IF endpoint # NoEndpoint
    THEN LET cache_path == _get_cache_path(endpoint) IN
         IF Exists(fs, cache_path) THEN Remove(fs, {cache_path}) ELSE fs
    ELSE Remove(fs, {filename \in ListDir(fs) : EndsWithJson(filename)})

---------------------------------------------------------------------------
\* The network.  One outcome per GET attempt: a parsed body, or the
\* RequestException that requests.get or raise_for_status raises.

Ok(data) == [ok |-> TRUE, data |-> data]
Failure(error) == [ok |-> FALSE, error |-> error]

Outcomes == {Ok(v) : v \in Responses}
            \cup {Failure("ConnectionError"), Failure("HTTPError")}

\* A GET with a success status whose body does not parse: response.json()
\* raises requests.exceptions.JSONDecodeError.
Unparsable == Failure("JSONDecodeError")

\* The exceptions `except RequestException` catches when the error of
\* response.json() is a plain ValueError.
RequestException_valueerror == {"ConnectionError", "HTTPError", "Timeout"}

\* The exceptions `except RequestException` catches: those of requests.get
\* and raise_for_status, and the JSONDecodeError of requests, which is an
\* InvalidJSONError and so a RequestException.
RequestException ==
    {"ConnectionError", "HTTPError", "Timeout", "JSONDecodeError"}

\* What the network answers to the attempts of one call, up to its first
\* success.
Networks ==
    {net \in UNION {[1..n -> Outcomes] : n \in 1..NumAttempts} :
        /\ \A i \in 1..(Len(net) - 1) : ~net[i].ok
        /\ Len(net) < NumAttempts => net[Len(net)].ok}

\* The loop without its time.sleep(1).
RECURSIVE RequestLoop_nosleep(_, _, _, _, _, _, _, _)
RequestLoop_nosleep(fs, t, endpoint, use_cache, net, attempt, events, writable) ==
    IF attempt >= NumAttempts
    THEN [value |-> None, exc |-> "none", events |-> events, files |-> fs,
          now |-> t]
    ELSE
        LET outcome == net[attempt + 1]
            tried == Append(events, "GET")
            written == IF use_cache
                       THEN _write_cache(fs, t, endpoint, outcome.data,
                                         writable)
                       ELSE Return(None, fs)
        IN  IF outcome.ok /\ written.exc # "none"
            THEN [value |-> None, exc |-> written.exc, events |-> tried,
                  files |-> written.files, now |-> t]
            ELSE IF outcome.ok
            THEN [value |-> outcome.data, exc |-> "none", events |-> tried,
                  files |-> written.files, now |-> t]
            ELSE IF outcome.error \notin RequestException
                    \/ attempt = LastAttempt
            THEN [value |-> None, exc |-> outcome.error, events |-> tried,
                  files |-> fs, now |-> t]
            ELSE RequestLoop_nosleep(fs, t, endpoint, use_cache, net,
                                     attempt + 1, tried, writable)

\* The for loop of _make_request from `attempt` on, at time t, after the
\* network events done so far.
RECURSIVE RequestLoop(_, _, _, _, _, _, _, _)
RequestLoop(fs, t, endpoint, use_cache, net, attempt, events, writable) ==
    IF attempt >= NumAttempts
    THEN [value |-> None, exc |-> "none", events |-> events, files |-> fs,
          now |-> t]
    ELSE
        LET outcome == net[attempt + 1]
            tried == Append(events, "GET")
            written == IF use_cache
                       THEN _write_cache(fs, t, endpoint, outcome.data,
                                         writable)
                       ELSE Return(None, fs)
        IN  IF outcome.ok /\ written.exc # "none"
            THEN [value |-> None, exc |-> written.exc, events |-> tried,
                  files |-> written.files, now |-> t]
            ELSE IF outcome.ok
            THEN [value |-> outcome.data, exc |-> "none", events |-> tried,
                  files |-> written.files, now |-> t]
            ELSE IF outcome.error \notin RequestException
                    \/ attempt = LastAttempt
            THEN [value |-> None, exc |-> outcome.error, events |-> tried,
                  files |-> fs, now |-> t]
            ELSE RequestLoop(fs, t + RetryDelay, endpoint, use_cache, net,
                             attempt + 1, Append(tried, "sleep"), writable)

\* bool(v) of a Python value
Truthy(v) ==
    CASE v.py = "None" -> FALSE
      [] v.py = "list" -> v.items # <<>>
      [] v.py = "tuple" -> v.items # <<>>
      [] v.py = "dict" -> DOMAIN v.fields # {}

\* _make_request with `if cached_data:` for `if cached_data is not None:`
_make_request_truthy(fs, t, expiry, endpoint, use_cache, net, writable) ==
    LET cached_data == IF use_cache
                       THEN _read_cache(fs, t, expiry, endpoint)
                       ELSE Return(None, fs)
    IN  IF cached_data.exc # "none"
        THEN [value |-> None, exc |-> cached_data.exc, events |-> <<>>,
              files |-> cached_data.files, now |-> t]
        ELSE IF use_cache /\ Truthy(cached_data.value)
        THEN [value |-> cached_data.value, exc |-> "none", events |-> <<>>,
              files |-> cached_data.files, now |-> t]
        ELSE RequestLoop(cached_data.files, t, endpoint, use_cache, net, 0,
                         <<>>, writable)

\* _make_request that falls back on the expired entry when the network
\* fails.
_make_request_stale(fs, t, expiry, endpoint, use_cache, net, writable) ==
    LET cached_data == IF use_cache
                       THEN _read_cache(fs, t, expiry, endpoint)
                       ELSE Return(None, fs)
        cache_path == _get_cache_path(endpoint)
        fetched == RequestLoop(cached_data.files, t, endpoint, use_cache, net,
                               0, <<>>, writable)
    IN  IF use_cache /\ cached_data.value # None
        THEN [value |-> cached_data.value, exc |-> "none", events |-> <<>>,
              files |-> cached_data.files, now |-> t]
        ELSE IF fetched.exc # "none" /\ use_cache /\ Exists(fs, cache_path)
        THEN [fetched EXCEPT
                 !.value = json_load(fs[cache_path].text.fields.data),
                 !.exc = "none"]
        ELSE fetched

\* _make_request that uses the cache whatever use_cache says.
_make_request_cached(fs, t, expiry, endpoint, use_cache, net, writable) ==
    LET cached_data == _read_cache(fs, t, expiry, endpoint)
    IN  IF cached_data.exc # "none"
        THEN [value |-> None, exc |-> cached_data.exc, events |-> <<>>,
              files |-> cached_data.files, now |-> t]
        ELSE IF cached_data.value # None
        THEN [value |-> cached_data.value, exc |-> "none", events |-> <<>>,
              files |-> cached_data.files, now |-> t]
        ELSE RequestLoop(cached_data.files, t, endpoint, TRUE, net, 0, <<>>,
                         writable)

\* SpaceXAPIClient._make_request
_make_request(fs, t, expiry, endpoint, use_cache, net, writable) ==
    LET cached_data == IF use_cache
                       THEN _read_cache(fs, t, expiry, endpoint)
                       ELSE Return(None, fs)
    IN  IF cached_data.exc # "none"
        THEN [value |-> None, exc |-> cached_data.exc, events |-> <<>>,
              files |-> cached_data.files, now |-> t]
        ELSE IF use_cache /\ cached_data.value # None
        THEN [value |-> cached_data.value, exc |-> "none", events |-> <<>>,
              files |-> cached_data.files, now |-> t]
        ELSE RequestLoop(cached_data.files, t, endpoint, use_cache, net, 0,
                         <<>>, writable)

\* The text is what a _write_cache leaves: an object with a numeric
\* timestamp and the data.
WellFormed(text) ==
    /\ text.json = "object"
    /\ {"timestamp", "data"} \subseteq DOMAIN text.fields
    /\ text.fields.timestamp.json = "number"

\* The entry of the endpoint is there and is not what a _write_cache leaves.
Corrupted(fs, endpoint) ==
    /\ Exists(fs, _get_cache_path(endpoint))
    /\ ~WellFormed(fs[_get_cache_path(endpoint)].text)

\* How many GETs and how many pauses a call made.
Count(events, what) == Cardinality({i \in 1..Len(events) : events[i] = what})

\* get_all_launchpads bound to the endpoint of the launches.
get_all_launchpads_launches(fs, t, expiry, net, writable) ==
    _make_request(fs, t, expiry, <<"/", "launches">>, TRUE, net, writable)

\* The resource accessors of SpaceXAPIClient.
get_all_launches(fs, t, expiry, net, writable) ==
    _make_request(fs, t, expiry, <<"/", "launches">>, TRUE, net, writable)

get_past_launches(fs, t, expiry, net, writable) ==
    _make_request(fs, t, expiry, <<"/", "launches", "/", "past">>, TRUE, net,
                  writable)

get_upcoming_launches(fs, t, expiry, net, writable) ==
    _make_request(fs, t, expiry, <<"/", "launches", "/", "upcoming">>, TRUE,
                  net, writable)

get_launch_by_id(fs, t, expiry, launch_id, net, writable) ==
    _make_request(fs, t, expiry, <<"/", "launches", "/", launch_id>>, TRUE,
                  net, writable)

get_all_rockets(fs, t, expiry, net, writable) ==
    _make_request(fs, t, expiry, <<"/", "rockets">>, TRUE, net, writable)

get_rocket_by_id(fs, t, expiry, rocket_id, net, writable) ==
    _make_request(fs, t, expiry, <<"/", "rockets", "/", rocket_id>>, TRUE, net,
                  writable)

get_all_launchpads(fs, t, expiry, net, writable) ==
    _make_request(fs, t, expiry, <<"/", "launchpads">>, TRUE, net, writable)

get_launchpad_by_id(fs, t, expiry, launchpad_id, net, writable) ==
    _make_request(fs, t, expiry, <<"/", "launchpads", "/", launchpad_id>>,
                  TRUE, net, writable)

\* The accessors without and with an id argument.
AllAccessors == {"get_all_launches", "get_past_launches",
                 "get_upcoming_launches", "get_all_rockets",
                 "get_all_launchpads"}
ByIdAccessors == {"get_launch_by_id", "get_rocket_by_id",
                  "get_launchpad_by_id"}

\* client.<accessor>() and client.<accessor>(id)
CallAccessor(accessor, id, fs, t, expiry, net, writable) ==
    CASE accessor = "get_all_launches" ->
             get_all_launches(fs, t, expiry, net, writable)
      [] accessor = "get_past_launches" ->
             get_past_launches(fs, t, expiry, net, writable)
      [] accessor = "get_upcoming_launches" ->
             get_upcoming_launches(fs, t, expiry, net, writable)
      [] accessor = "get_launch_by_id" ->
             get_launch_by_id(fs, t, expiry, id, net, writable)
      [] accessor = "get_all_rockets" ->
             get_all_rockets(fs, t, expiry, net, writable)
      [] accessor = "get_rocket_by_id" ->
             get_rocket_by_id(fs, t, expiry, id, net, writable)
      [] accessor = "get_all_launchpads" ->
             get_all_launchpads(fs, t, expiry, net, writable)
      [] accessor = "get_launchpad_by_id" ->
             get_launchpad_by_id(fs, t, expiry, id, net, writable)

---------------------------------------------------------------------------
\* The state machine.

\* The endpoints a _read_cache would hit in directory fs at time t.
Hits(fs, t, expiry) ==
    {e \in Endpoints : _read_cache(fs, t, expiry, e).value # None}

\* The cache entries of the directory: its .json files.
Entries(fs) == {name \in ListDir(fs) : EndsWithJson(name)}

InitFiles ==
    [name \in FileNames |->
        IF name = ForeignName THEN File(OldTime, [json |-> "invalid"]) ELSE NoFile]

\* dict() and DataRepository()
EmptyDict == [key \in {} |-> None]
DataRepository == [launches |-> <<>>, rockets |-> EmptyDict,
                   launchpads |-> EmptyDict]

\* st.session_state when SpaceXDashboard.__init__ has run in a new session.
NewSession == [data_loaded |-> FALSE, filtered_launches |-> <<>>]

\* SpaceXAPIClient.__init__ on a directory that holds no entry yet, in
\* SpaceXTracker.__init__ and in SpaceXDashboard.__init__.
Init ==
    /\ files = InitFiles
    /\ dir_exists = TRUE
    /\ tracker_data_repo = DataRepository
    /\ dashboard_data_repo = DataRepository
    /\ session_state = NewSession
    /\ now = StartTime
    /\ cache_expiry \in CacheExpiryChoices
    /\ max_cache_age_days \in MaxCacheAgeDaysChoices
    /\ steps = 0
    /\ last = [op |-> "__init__", evicted |-> {}]

\* Time passes between two calls.
Tick(d) ==
    /\ steps < MaxSteps
    /\ now' = now + d
    /\ steps' = steps + 1
    /\ last' = [op |-> "tick"]
    /\ UNCHANGED <<files, cache_expiry, max_cache_age_days, dir_exists, front>>

UtimeNames == {_get_cache_path(e) : e \in UtimeEndpoints}

\* os.utime from outside: a cache file is made to look old.
Utime(name) ==
    /\ name \in Entries(files)
    /\ files[name].mtime # OldTime
    /\ files' = [files EXCEPT ![name].mtime = OldTime]
    /\ last' = [op |-> "utime"]
    /\ UNCHANGED <<now, cache_expiry, max_cache_age_days, steps, dir_exists, front>>

\* __init__ that calls invalidate_old_cache() without its argument.
Construct_default_age(expiry, max_age_days) ==
    /\ cache_expiry' = expiry
    /\ max_cache_age_days' = max_age_days
    /\ dir_exists' = TRUE
    /\ files' = invalidate_old_cache(files, now, DefaultMaxAgeDays, {}).files
    /\ last' = [op |-> "__init__",
                evicted |-> Entries(files) \ Entries(files')]
    /\ UNCHANGED <<now, steps, front>>

\* SpaceXAPIClient.__init__: a new client on the same directory, which
\* os.makedirs creates when it is not there; evicted: the entries the
\* eviction pass of the constructor removed.
Construct(expiry, max_age_days) ==
    /\ cache_expiry' = expiry
    /\ max_cache_age_days' = max_age_days
    /\ dir_exists' = TRUE
    /\ files' = invalidate_old_cache(files, now, max_age_days, {}).files
    /\ last' = [op |-> "__init__",
                evicted |-> Entries(files) \ Entries(files')]
    /\ UNCHANGED <<now, steps, front>>

\* The cache directory is removed from outside, with all it holds: the next
\* client starts without it.
RemoveCacheDir ==
    /\ dir_exists
    /\ dir_exists' = FALSE
    /\ files' = [name \in FileNames |-> NoFile]
    /\ last' = [op |-> "rmtree"]
    /\ UNCHANGED <<now, cache_expiry, max_cache_age_days, steps, front>>

\* A direct call of _read_cache; unchanged: the call left the cache
\* directory as it was; corrupted: the entry was there and malformed; wrote: what the call just before it wrote to the same
\* cache file, if it was a _write_cache.
ReadCache(endpoint) ==
    \E r \in {_read_cache(files, now, cache_expiry, endpoint)} :
    /\ files' = r.files
    /\ last' = [op |-> "_read_cache", endpoint |-> endpoint,
                value |-> r.value, exc |-> r.exc,
                unchanged |-> r.files = files,
                corrupted |-> Corrupted(files, endpoint),
                wrote |->
                    IF /\ last.op = "_write_cache"
                       /\ _get_cache_path(last.endpoint) = _get_cache_path(endpoint)
                    THEN last.data
                    ELSE None]
    /\ UNCHANGED <<now, cache_expiry, max_cache_age_days, steps, dir_exists, front>>

\* A direct call of _write_cache.
WriteCache(endpoint, data) ==
    /\ files' = _write_cache(files, now, endpoint, data, dir_exists).files
    /\ last' = [op |-> "_write_cache", endpoint |-> endpoint, data |-> data]
    /\ UNCHANGED <<now, cache_expiry, max_cache_age_days, steps, dir_exists, front>>

\* clear_cache(endpoint), or clear_cache() for NoEndpoint; all_hit_before:
\* every endpoint was a cache hit when the call started.
ClearCache(endpoint) ==
    /\ files' = clear_cache(files, now, max_cache_age_days, endpoint)
    /\ last' = [op |-> "clear_cache", endpoint |-> endpoint,
                all_hit_before |-> Hits(files, now, cache_expiry) = Endpoints]
    /\ UNCHANGED <<now, cache_expiry, max_cache_age_days, steps, dir_exists, front>>

\* A direct call of invalidate_old_cache while the files of undeletable
\* cannot be removed; evicted_hit: the pass removed an entry that was a
\* cache hit; old: the entries that were older than the cutoff.
InvalidateOldCache(max_age_days, undeletable) ==
    \E r \in {invalidate_old_cache(files, now, max_age_days, undeletable)} :
    /\ files' = r.files
    /\ last' = [op |-> "invalidate_old_cache", max_age_days |-> max_age_days,
                undeletable |-> undeletable, exc |-> r.exc,
                old |-> {name \in Entries(files) :
                            files[name].mtime
                                < now - max_age_days * SecondsPerDay},
                evicted_hit |-> Hits(files, now, cache_expiry)
                                    # Hits(files', now, cache_expiry)]
    /\ UNCHANGED <<now, cache_expiry, max_cache_age_days, steps, dir_exists, front>>

\* periodic_cleanup()
PeriodicCleanup ==
    /\ files' = invalidate_old_cache(files, now, max_cache_age_days, {}).files
    /\ last' = [op |-> "periodic_cleanup",
                max_age_days |-> max_cache_age_days,
                total_files |-> Cardinality(Entries(files'))]
    /\ UNCHANGED <<now, cache_expiry, max_cache_age_days, steps, dir_exists, front>>

\* _make_request(endpoint, use_cache) against a network that answers net.
\* Kept with the outcome: elapsed, the time the call took; unchanged, the
\* call left the cache directory as it was; stored_before, the value of the
\* entry of the endpoint if now - timestamp <= cache_expiry held when the
\* call started (None otherwise); after_fetch, the call just before was a
\* _make_request of the same endpoint that fetched from the network and
\* cached what it got.
MakeRequest(endpoint, use_cache, net, writable) ==
    \E r \in {_make_request(files, now, cache_expiry, endpoint, use_cache,
                             net, writable)} :
    LET cache_path == _get_cache_path(endpoint)
    IN  /\ steps + Count(r.events, "sleep") <= MaxSteps
        /\ files' = r.files
        /\ now' = r.now
        /\ steps' = steps + Count(r.events, "sleep")
        /\ last' = [op |-> "_make_request", endpoint |-> endpoint,
                    use_cache |-> use_cache, net |-> net,
                    value |-> r.value, exc |-> r.exc, events |-> r.events,
                    elapsed |-> r.now - now,
                    unchanged |-> r.files = files,
                    writable |-> writable,
                    corrupted |-> Corrupted(files, endpoint),
                    stored_before |->
                        IF /\ files[cache_path].exists
                           /\ ~Corrupted(files, endpoint)
                           /\ now - files[cache_path].text.fields.timestamp.n
                                  <= cache_expiry
                        THEN json_load(files[cache_path].text.fields.data)
                        ELSE None,
                    after_fetch |->
                        /\ last.op = "_make_request"
                        /\ last.endpoint = endpoint
                        /\ last.use_cache
                        /\ last.exc = "none"
                        /\ Count(last.events, "GET") > 0]
        /\ UNCHANGED <<cache_expiry, max_cache_age_days, dir_exists, front>>

\* The cache store on its own: the calls that read, write, clear and evict.
Next ==
    \/ \E d \in TickSteps : Tick(d)
    \/ \E name \in UtimeNames : Utime(name)
    \/ \E expiry \in CacheExpiryChoices, max_age_days \in MaxCacheAgeDaysChoices :
           Construct(expiry, max_age_days)
    \/ \E endpoint \in Endpoints : ReadCache(endpoint)
    \/ \E endpoint \in Endpoints, data \in WriteValues : WriteCache(endpoint, data)
    \/ \E endpoint \in Endpoints \cup {NoEndpoint} : ClearCache(endpoint)
    \/ \E max_age_days \in MaxAgeDaysArgs : InvalidateOldCache(max_age_days, {})
    \/ PeriodicCleanup

Spec == Init /\ [][Next]_vars

\* The fetch client: requests, with the calls that change what a request
\* finds in the cache.
NextFetch ==
    \/ \E d \in TickSteps : Tick(d)
    \/ \E endpoint \in Endpoints, data \in WriteValues : WriteCache(endpoint, data)
    \/ \E endpoint \in Endpoints \cup {NoEndpoint} : ClearCache(endpoint)
    \/ \E endpoint \in Endpoints, use_cache \in BOOLEAN, net \in Networks :
           MakeRequest(endpoint, use_cache, net, TRUE)

SpecFetch == Init /\ [][NextFetch]_vars

\* What the network answers when a body may be unparsable.
BodyNetworks ==
    {net \in UNION {[1..n -> {Ok(PyList(<<>>)), Failure("ConnectionError"),
                              Unparsable}] : n \in 1..NumAttempts} :
        /\ \A i \in 1..(Len(net) - 1) : ~net[i].ok
        /\ Len(net) < NumAttempts => net[Len(net)].ok}

\* The fetch client against a service whose bodies may not parse.
NextBody ==
    \/ \E d \in TickSteps : Tick(d)
    \/ \E endpoint \in Endpoints \cup {NoEndpoint} : ClearCache(endpoint)
    \/ \E endpoint \in Endpoints, use_cache \in BOOLEAN, net \in BodyNetworks :
           MakeRequest(endpoint, use_cache, net, TRUE)

SpecBody == Init /\ [][NextBody]_vars

\* Client start: a new client on what earlier clients left, or on nothing.
NextStart ==
    \/ \E d \in TickSteps : Tick(d)
    \/ \E name \in UtimeNames : Utime(name)
    \/ \E endpoint \in Endpoints, data \in WriteValues : WriteCache(endpoint, data)
    \/ RemoveCacheDir
    \/ \E expiry \in CacheExpiryChoices, max_age_days \in MaxCacheAgeDaysChoices :
           Construct(expiry, max_age_days)

SpecStart == Init /\ [][NextStart]_vars

\* No id: the argument of an accessor that takes none.
NoId == ""

\* A call of a resource accessor against a network that answers net.
Accessor(accessor, id, net) ==
    /\ steps < MaxSteps
    /\ steps' = steps + 1
    /\ \E r \in {CallAccessor(accessor, id, files, now, cache_expiry, net,
                               dir_exists)} :
          /\ files' = r.files
          /\ now' = r.now
          /\ last' = [op |-> accessor, id |-> id, net |-> net,
                      value |-> r.value, exc |-> r.exc, events |-> r.events]
          /\ UNCHANGED <<cache_expiry, max_cache_age_days, dir_exists, front>>

\* What the network answers to an accessor or to a front end: a list at
\* once, a record after one failure, or two failures.
FrontNetworks ==
    {<<Ok(PyList(<<>>))>>,
     <<Failure("ConnectionError"), Ok(PyDict(Falcon9))>>,
     <<Failure("ConnectionError"), Failure("HTTPError")>>}

\* The client through its accessors.
NextAccess ==
    \/ \E d \in TickSteps : Tick(d)
    \/ \E accessor \in AllAccessors, net \in FrontNetworks :
           Accessor(accessor, NoId, net)
    \/ \E accessor \in ByIdAccessors, id \in Ids, net \in FrontNetworks :
           Accessor(accessor, id, net)

SpecAccess == Init /\ [][NextAccess]_vars

\* Configurations in which an entry may expire as late as it is evicted.
EvictExpiryChoices == {1, SecondsPerDay}

\* The files whose removal may fail.
UndeletableNames == {_get_cache_path(e) : e \in UtimeEndpoints}

\* Eviction among the calls that use the cache.
NextEvict ==
    \/ \E d \in TickSteps : Tick(d)
    \/ \E name \in UtimeNames : Utime(name)
    \/ \E expiry \in EvictExpiryChoices, max_age_days \in MaxCacheAgeDaysChoices :
           Construct(expiry, max_age_days)
    \/ \E endpoint \in UtimeEndpoints : ReadCache(endpoint)
    \/ \E endpoint \in UtimeEndpoints : WriteCache(endpoint, PyList(<<>>))
    \/ \E endpoint \in UtimeEndpoints, net \in FrontNetworks :
           MakeRequest(endpoint, TRUE, net, TRUE)
    \/ \E max_age_days \in MaxAgeDaysArgs,
          undeletable \in SUBSET UndeletableNames :
           InvalidateOldCache(max_age_days, undeletable)
    \/ PeriodicCleanup

SpecEvict == Init /\ [][NextEvict]_vars

---------------------------------------------------------------------------
\* Optional values, datetimes and strings.

\* Optional[str]: None, or a string
NoName == <<>>
Name(s) == <<s>>

\* Optional[bool], Optional[datetime]: None, or a value
Nothing == <<>>
Some(v) == <<v>>

\* What a function that works on values returns or raises.
Returns(v) == [value |-> v, exc |-> "none"]
Raises(x) == [value |-> None, exc |-> x]

\* A datetime: its wall-clock time in seconds, and its tzinfo, Nothing for
\* a naive one, the offset from UTC in seconds for an aware one.
Datetime(wall, tzinfo) == [wall |-> wall, tzinfo |-> tzinfo]
utc == Some(0)

\* datetime.utcnow() at time t: naive.
utcnow(t) == Datetime(t, Nothing)

\* d.replace(tzinfo=timezone.utc): the wall-clock time is kept.
replace_tzinfo_utc(d) == [d EXCEPT !.tzinfo = utc]

\* The instant of an aware datetime.
Instant(d) == d.wall - d.tzinfo[1]

\* a >= b of two datetimes: by instant when both are aware, by wall-clock
\* time when both are naive, TypeError otherwise.
DatetimeGE(a, b) ==
    IF (a.tzinfo = Nothing) # (b.tzinfo = Nothing) THEN Raises("TypeError")
    ELSE IF a.tzinfo = Nothing THEN Returns(a.wall >= b.wall)
    ELSE Returns(Instant(a) >= Instant(b))

\* a <= b of two datetimes
DatetimeLE(a, b) == DatetimeGE(b, a)

\* An ISO 8601 text: the wall-clock time it spells, and its suffix.
IsoText(wall, suffix) == [wall |-> wall, suffix |-> suffix]

\* The offsets datetime.fromisoformat reads from a suffix.
UtcOffsets == [suffix \in {"+00:00", "+05:00"} |->
                  IF suffix = "+00:00" THEN 0 ELSE 18000]

\* text.replace('Z', '+00:00')
ReplaceZ(text) ==
    IF text.suffix = "Z" THEN [text EXCEPT !.suffix = "+00:00"] ELSE text

\* datetime.fromisoformat: naive without a suffix, aware with an offset,
\* ValueError on anything else.
fromisoformat(text) ==
    IF text.suffix = "" THEN Returns(Datetime(text.wall, Nothing))
    ELSE IF text.suffix \in DOMAIN UtcOffsets
    THEN Returns(Datetime(text.wall, Some(UtcOffsets[text.suffix])))
    ELSE Raises("ValueError")

\* The characters of the strings that names and search texts are made of.
Characters ==
    [s \in {"", "Falcon 9", "Falcon Heavy", "KSC", "falcon", "HEAVY", "ksc",
            "Test Launch", "Later Launch", "Unknown"} |->
        CASE s = "" -> <<>>
          [] s = "Falcon 9" -> <<"F", "a", "l", "c", "o", "n", " ", "9">>
          [] s = "Falcon Heavy" ->
                 <<"F", "a", "l", "c", "o", "n", " ", "H", "e", "a", "v", "y">>
          [] s = "KSC" -> <<"K", "S", "C">>
          [] s = "falcon" -> <<"f", "a", "l", "c", "o", "n">>
          [] s = "HEAVY" -> <<"H", "E", "A", "V", "Y">>
          [] s = "ksc" -> <<"k", "s", "c">>
          [] s = "Test Launch" ->
                 <<"T", "e", "s", "t", " ", "L", "a", "u", "n", "c", "h">>
          [] s = "Later Launch" ->
                 <<"L", "a", "t", "e", "r", " ", "L", "a", "u", "n", "c", "h">>
          [] s = "Unknown" -> <<"U", "n", "k", "n", "o", "w", "n">>]

\* str.lower() of one character
LowerChar ==
    [c \in {"A", "C", "E", "F", "H", "K", "L", "S", "T", "U", "V", "Y"} |->
        CASE c = "A" -> "a" [] c = "C" -> "c" [] c = "E" -> "e"
          [] c = "F" -> "f" [] c = "H" -> "h" [] c = "K" -> "k"
          [] c = "L" -> "l" [] c = "S" -> "s" [] c = "T" -> "t"
          [] c = "U" -> "u" [] c = "V" -> "v" [] c = "Y" -> "y"]

\* s.lower(), as characters
lower(s) ==
    [i \in 1..Len(Characters[s]) |->
        IF Characters[s][i] \in DOMAIN LowerChar
        THEN LowerChar[Characters[s][i]]
        ELSE Characters[s][i]]

\* a in b of two texts: a is a run of consecutive characters of b.
In(a, b) ==
    \E k \in 0..(Len(b) - Len(a)) : \A i \in 1..Len(a) : b[k + i] = a[i]

---------------------------------------------------------------------------
\* The data models and the repository (src/spacex/models.py).  Of a record
\* the id, the name, the references and what the filters and the
\* statistics read are kept.

\* d[key] = value of a dict
Put(d, key, value) ==
    [k \in DOMAIN d \cup {key} |-> IF k = key THEN value ELSE d[k]]

Rocket_from_api_data(data) == [id |-> data.id, name |-> data.name]

Launchpad_from_api_data(data) == [id |-> data.id, name |-> data.name]

Launch_from_api_data(data, rockets, launchpads, t) ==
    LET parsed == IF "date_utc" \in DOMAIN data
                  THEN fromisoformat(ReplaceZ(data.date_utc))
                  ELSE Raises("KeyError")
        date_utc == IF parsed.exc = "none" THEN parsed.value ELSE utcnow(t)
        rocket_name ==
            IF /\ DOMAIN rockets # {}
               /\ "rocket" \in DOMAIN data
               /\ data.rocket \in DOMAIN rockets
            THEN Name(rockets[data.rocket].name)
            ELSE NoName
        launchpad_name ==
            IF /\ DOMAIN launchpads # {}
               /\ "launchpad" \in DOMAIN data
               /\ data.launchpad \in DOMAIN launchpads
            THEN Name(launchpads[data.launchpad].name)
            ELSE NoName
    IN  [id |-> data.id, name |-> data.name,
         date_utc |-> date_utc,
         success |-> Get(data, "success", Nothing),
         rocket_id |-> Get(data, "rocket", ""),
         launchpad_id |-> Get(data, "launchpad", ""),
         upcoming |-> data.upcoming,
         rocket_name |-> rocket_name, launchpad_name |-> launchpad_name]

add_rocket(repo, rocket_data) ==
    LET rocket == Rocket_from_api_data(rocket_data)
    IN  [repo EXCEPT !.rockets = Put(repo.rockets, rocket.id, rocket)]

add_launchpad(repo, launchpad_data) ==
    LET launchpad == Launchpad_from_api_data(launchpad_data)
    IN  [repo EXCEPT !.launchpads = Put(repo.launchpads, launchpad.id, launchpad)]

add_launch(repo, launch_data, t) ==
    LET launch == Launch_from_api_data(launch_data, repo.rockets,
                                       repo.launchpads, t)
    IN  [repo EXCEPT !.launches = Append(repo.launches, launch)]

RECURSIVE load_rockets(_, _)
load_rockets(repo, rockets_data) ==
    IF rockets_data = <<>> THEN repo
    ELSE load_rockets(add_rocket(repo, Head(rockets_data)), Tail(rockets_data))

RECURSIVE load_launchpads(_, _)
load_launchpads(repo, launchpads_data) ==
    IF launchpads_data = <<>> THEN repo
    ELSE load_launchpads(add_launchpad(repo, Head(launchpads_data)),
                         Tail(launchpads_data))

RECURSIVE load_launches(_, _, _)
load_launches(repo, launches_data, t) ==
    IF launches_data = <<>> THEN repo
    ELSE load_launches(add_launch(repo, Head(launches_data), t),
                       Tail(launches_data), t)

---------------------------------------------------------------------------
\* The filters (src/spacex/filters.py).  A date criterion is Nothing or
\* Some(datetime), a name criterion NoName or Name(text), a success
\* criterion Nothing or Some(boolean).

\* bool(s) of an Optional[str]
TruthyName(s) == s # NoName /\ s[1] # ""

filter_by_date_range(launches, start_date, end_date) ==
    LET start == replace_tzinfo_utc(start_date[1])
        end == replace_tzinfo_utc(end_date[1])
        NotBefore(launch) == DatetimeGE(launch.date_utc, start)
        NotAfter(launch) == DatetimeLE(launch.date_utc, end)
        KeepNotBefore(launch) == NotBefore(launch).value
        KeepNotAfter(launch) == NotAfter(launch).value
        from_start ==
            IF start_date = Nothing THEN Returns(launches)
            ELSE IF \E i \in 1..Len(launches) :
                        NotBefore(launches[i]).exc # "none"
            THEN Raises("TypeError")
            ELSE Returns(SelectSeq(launches, KeepNotBefore))
    IN  IF from_start.exc # "none" \/ end_date = Nothing THEN from_start
        ELSE IF \E i \in 1..Len(from_start.value) :
                    NotAfter(from_start.value[i]).exc # "none"
        THEN Raises("TypeError")
        ELSE Returns(SelectSeq(from_start.value, KeepNotAfter))

\* filter_by_rocket_name that lets a launch without a rocket name through.
filter_by_rocket_name_unnamed(launches, rocket_name) ==
    LET rocket_name_lower == lower(rocket_name)
        Keep(launch) ==
            TruthyName(launch.rocket_name)
                => In(rocket_name_lower, lower(launch.rocket_name[1]))
    IN  SelectSeq(launches, Keep)

filter_by_rocket_name(launches, rocket_name) ==
    LET rocket_name_lower == lower(rocket_name)
        Keep(launch) ==
            /\ TruthyName(launch.rocket_name)
            /\ In(rocket_name_lower, lower(launch.rocket_name[1]))
    IN  SelectSeq(launches, Keep)

filter_by_success(launches, success) ==
    LET Keep(launch) == launch.success # Nothing /\ launch.success = success
    IN  IF success = Nothing THEN launches ELSE SelectSeq(launches, Keep)

filter_by_launch_site(launches, site_name) ==
    LET site_name_lower == lower(site_name)
        Keep(launch) ==
            /\ TruthyName(launch.launchpad_name)
            /\ In(site_name_lower, lower(launch.launchpad_name[1]))
    IN  SelectSeq(launches, Keep)

filter_launches(launches, start_date, end_date, rocket_name, success, site_name) ==
    LET by_date ==
            IF start_date # Nothing \/ end_date # Nothing
            THEN filter_by_date_range(launches, start_date, end_date)
            ELSE Returns(launches)
        ByRocket(filtered) ==
            IF TruthyName(rocket_name)
            THEN filter_by_rocket_name(filtered, rocket_name[1])
            ELSE filtered
        BySuccess(filtered) ==
            IF success # Nothing THEN filter_by_success(filtered, success)
            ELSE filtered
        BySite(filtered) ==
            IF TruthyName(site_name)
            THEN filter_by_launch_site(filtered, site_name[1])
            ELSE filtered
    IN  IF by_date.exc # "none" THEN by_date
        ELSE Returns(BySite(BySuccess(ByRocket(by_date.value))))

\* parse_date(date_str)
parse_date(date_str) ==
    LET parsed == fromisoformat(date_str)
    IN  IF parsed.exc = "none" THEN Some(parsed.value) ELSE Nothing

---------------------------------------------------------------------------
\* The statistics (src/spacex/statistics.py).  A float that is a quotient
\* of two counts is kept as the fraction in lowest terms; a dict of counts
\* is kept with the order in which its keys were inserted.

RECURSIVE GCD(_, _)
GCD(a, b) == IF b = 0 THEN a ELSE GCD(b, a % b)

\* numerator / denominator
Fraction(numerator, denominator) ==
    [numerator |-> numerator \div GCD(numerator, denominator),
     denominator |-> denominator \div GCD(numerator, denominator)]

ZeroFloat == Fraction(0, 1)

\* (part / whole) * 100
Percent(part, whole) == Fraction(100 * part, whole)

\* defaultdict(int)
NoCounts == [keys |-> <<>>, count |-> [key \in {} |-> 0]]

\* counts[key] += 1
Increment(counts, key) ==
    IF key \in DOMAIN counts.count
    THEN [counts EXCEPT !.count[key] = @ + 1]
    ELSE [keys |-> Append(counts.keys, key),
          count |-> Put(counts.count, key, 1)]

\* counts[key] of a defaultdict(int) that is only read
CountOf(counts, key) == Get(counts.count, key, 0)

\* The loop of calculate_success_rate_by_rocket.
RECURSIVE TallyByRocket(_, _, _)
TallyByRocket(launches, rocket_attempts, rocket_successes) ==
    IF launches = <<>>
    THEN [rocket_attempts |-> rocket_attempts,
          rocket_successes |-> rocket_successes]
    ELSE LET launch == Head(launches)
             counted == TruthyName(launch.rocket_name) /\ ~launch.upcoming
         IN  TallyByRocket(
                 Tail(launches),
                 IF counted
                 THEN Increment(rocket_attempts, launch.rocket_name[1])
                 ELSE rocket_attempts,
                 IF counted /\ launch.success = Some(TRUE)
                 THEN Increment(rocket_successes, launch.rocket_name[1])
                 ELSE rocket_successes)

\* calculate_success_rate_by_rocket that counts the upcoming launches too.
calculate_success_rate_by_rocket_upcoming(launches) ==
    LET Named(launch) == TruthyName(launch.rocket_name)
        named == SelectSeq(launches, Named)
        Of(name) == {i \in 1..Len(named) : named[i].rocket_name[1] = name}
    IN  [name \in {named[i].rocket_name[1] : i \in 1..Len(named)} |->
            Percent(Cardinality({i \in Of(name) :
                                    named[i].success = Some(TRUE)}),
                    Cardinality(Of(name)))]

calculate_success_rate_by_rocket(launches) ==
    LET tally == TallyByRocket(launches, NoCounts, NoCounts)
    IN  IF launches = <<>> THEN [rocket_name \in {} |-> ZeroFloat]
        ELSE [rocket_name \in DOMAIN tally.rocket_attempts.count |->
                 IF tally.rocket_attempts.count[rocket_name] > 0
                 THEN Percent(CountOf(tally.rocket_successes, rocket_name),
                              tally.rocket_attempts.count[rocket_name])
                 ELSE ZeroFloat]

RECURSIVE count_launches_by_site(_, _)
count_launches_by_site(launches, site_counts) ==
    IF launches = <<>> THEN site_counts
    ELSE count_launches_by_site(
             Tail(launches),
             IF TruthyName(Head(launches).launchpad_name)
             THEN Increment(site_counts, Head(launches).launchpad_name[1])
             ELSE site_counts)

\* The loop of get_most_launched_rocket.
RECURSIVE CountByRocket(_, _)
CountByRocket(launches, rocket_counts) ==
    IF launches = <<>> THEN rocket_counts
    ELSE CountByRocket(
             Tail(launches),
             IF TruthyName(Head(launches).rocket_name)
             THEN Increment(rocket_counts, Head(launches).rocket_name[1])
             ELSE rocket_counts)

\* max(counts.items(), key=lambda x: x[1]): the first of the largest.
MaxItem(counts) ==
    LET first == CHOOSE i \in 1..Len(counts.keys) :
                     /\ \A j \in 1..Len(counts.keys) :
                            counts.count[counts.keys[j]]
                                <= counts.count[counts.keys[i]]
                     /\ \A j \in 1..(i - 1) :
                            counts.count[counts.keys[j]]
                                < counts.count[counts.keys[i]]
    IN  <<counts.keys[first], counts.count[counts.keys[first]]>>

get_most_launched_rocket(launches) ==
    LET rocket_counts == CountByRocket(launches, NoCounts)
    IN  IF rocket_counts.keys = <<>> THEN <<"Unknown", 0>>
        ELSE MaxItem(rocket_counts)

get_busiest_launch_site(launches) ==
    LET site_counts == count_launches_by_site(launches, NoCounts)
    IN  IF site_counts.keys = <<>> THEN <<"Unknown", 0>>
        ELSE MaxItem(site_counts)

\* The keys SpaceXTracker.display_summary reads, in its order.
SummaryKeys ==
    <<"total_launches", "upcoming_launches", "completed_launches",
      "successful_launches", "failed_launches", "success_rate",
      "most_used_rocket", "most_used_rocket_count", "busiest_launch_site",
      "busiest_launch_site_count">>

\* What generate_launch_summary returns for the empty list.
EmptySummary ==
    [key \in {"total_launches", "successful_launches", "failed_launches",
              "success_rate", "most_used_rocket", "busiest_launch_site"} |->
        CASE key = "success_rate" -> ZeroFloat
          [] key \in {"most_used_rocket", "busiest_launch_site"} -> "Unknown"
          [] OTHER -> 0]

\* The summary of a list that is not empty, from its completed launches.
Summary(launches, completed_launches) ==
    LET Successful(launch) == launch.success = Some(TRUE)
        Failed(launch) == launch.success = Some(FALSE)
        Upcoming(launch) == launch.upcoming
        successful_launches == SelectSeq(completed_launches, Successful)
        failed_launches == SelectSeq(completed_launches, Failed)
        total_completed == Len(completed_launches)
        success_rate == IF total_completed > 0
                        THEN Percent(Len(successful_launches), total_completed)
                        ELSE ZeroFloat
        most_used_rocket == get_most_launched_rocket(launches)
        busiest_site == get_busiest_launch_site(launches)
    IN  [key \in {SummaryKeys[i] : i \in 1..Len(SummaryKeys)} |->
            CASE key = "total_launches" -> Len(launches)
              [] key = "upcoming_launches" -> Len(SelectSeq(launches, Upcoming))
              [] key = "completed_launches" -> total_completed
              [] key = "successful_launches" -> Len(successful_launches)
              [] key = "failed_launches" -> Len(failed_launches)
              [] key = "success_rate" -> success_rate
              [] key = "most_used_rocket" -> most_used_rocket[1]
              [] key = "most_used_rocket_count" -> most_used_rocket[2]
              [] key = "busiest_launch_site" -> busiest_site[1]
              [] key = "busiest_launch_site_count" -> busiest_site[2]]

\* generate_launch_summary that takes every launch as completed.
generate_launch_summary_all(launches) ==
    IF launches = <<>> THEN EmptySummary ELSE Summary(launches, launches)

generate_launch_summary(launches) ==
    LET Completed(launch) == ~launch.upcoming
    IN  IF launches = <<>> THEN EmptySummary
        ELSE Summary(launches, SelectSeq(launches, Completed))

\* SpaceXTracker.display_summary: summary[key] for each key in turn, with
\* the lines printed before a KeyError.
display_summary(launches) ==
    LET summary == generate_launch_summary(launches)
        missing == {i \in 1..Len(SummaryKeys) :
                       SummaryKeys[i] \notin DOMAIN summary}
        first == CHOOSE i \in missing : \A j \in missing : i <= j
    IN  IF missing = {}
        THEN [exc |-> "none", printed |-> SummaryKeys]
        ELSE [exc |-> "KeyError", printed |-> SubSeq(SummaryKeys, 1, first - 1)]

---------------------------------------------------------------------------
\* The front ends: SpaceXTracker.load_data (src/main_app.py) and
\* SpaceXDashboard.load_data (src/streamlit_app.py).

\* The records the service returns for each resource type.
KSC == [id |-> "1", name |-> "KSC"]
TestLaunch == [id |-> "1", name |-> "Test Launch",
               date_utc |-> IsoText(StartTime, "Z"), success |-> Some(TRUE),
               rocket |-> "1", launchpad |-> "1", upcoming |-> FALSE]

ResourceData(resource) ==
    CASE resource = "rockets" -> PyList(<<Falcon9>>)
      [] resource = "launchpads" -> PyList(<<KSC>>)
      [] resource = "launches" -> PyList(<<TestLaunch>>)

\* How the network answers the fetch of a resource type within one
\* load_data: at once, after one failure, or with two failures.
Answers == {"ok", "retry", "fail"}

AnswerNet(resource, answer) ==
    CASE answer = "ok" -> <<Ok(ResourceData(resource))>>
      [] answer = "retry" ->
             <<Failure("ConnectionError"), Ok(ResourceData(resource))>>
      [] answer = "fail" ->
             <<Failure("ConnectionError"), Failure("HTTPError")>>

\* self.api_client.get_all_<resource>()
GetAll(resource, fs, t, expiry, net, writable) ==
    CASE resource = "rockets" -> get_all_rockets(fs, t, expiry, net, writable)
      [] resource = "launchpads" ->
             get_all_launchpads(fs, t, expiry, net, writable)
      [] resource = "launches" ->
             get_all_launches(fs, t, expiry, net, writable)

\* self.data_repo.load_<resource>(data)
Load(resource, repo, data, t) ==
    CASE resource = "rockets" -> load_rockets(repo, data)
      [] resource = "launchpads" -> load_launchpads(repo, data)
      [] resource = "launches" -> load_launches(repo, data, t)

\* A load_data as it starts: nothing attempted yet.
Loading(fs, t, repo, session) ==
    [files |-> fs, now |-> t, repo |-> repo, session |-> session,
     attempted |-> {}, failed |-> {}, returned |-> FALSE,
     events |-> [resource \in Resources |-> <<>>]]

\* The value a statement leaves behind: the one element of a singleton, so
\* that the statements after it work on a value computed once.
Only(S) == CHOOSE x \in S : TRUE

\* One try block of SpaceXTracker.load_data: fetch, load, and on any
\* exception log the error and go on.
TrackerTry(st, resource, expiry, net, writable) ==
    LET Fetched(r) ==
            LET fetched == [st EXCEPT !.files = r.files, !.now = r.now,
                                      !.attempted = @ \cup {resource},
                                      !.events[resource] = r.events]
            IN  IF r.exc = "none" /\ r.value.py = "list"
                THEN [fetched EXCEPT
                         !.repo = Load(resource, st.repo, r.value.items, r.now)]
                ELSE [fetched EXCEPT !.failed = @ \cup {resource}]
    IN  Only({Fetched(r) : r \in {GetAll(resource, st.files, st.now, expiry,
                                          net, writable)}})

\* load_data that returns at the first failure, as the dashboard's does.
TrackerLoadData_stop(fs, t, expiry, max_age_days, repo, force_refresh, nets, writable) ==
    LET cleared == IF force_refresh
                   THEN clear_cache(fs, t, max_age_days, NoEndpoint)
                   ELSE fs
        LoadRockets(st) ==
            TrackerTry(st, "rockets", expiry, nets.rockets, writable)
        LoadLaunchpads(st) ==
            IF st.failed # {} THEN st
            ELSE TrackerTry(st, "launchpads", expiry, nets.launchpads,
                            writable)
        LoadLaunches(st) ==
            IF st.failed # {} THEN st
            ELSE TrackerTry(st, "launches", expiry, nets.launches, writable)
        rockets == {LoadRockets(st) : st \in {Loading(cleared, t, repo, EmptyDict)}}
        launchpads == {LoadLaunchpads(st) : st \in rockets}
    IN  Only({LoadLaunches(st) : st \in launchpads})

\* load_data that does not clear the cache on force_refresh.
TrackerLoadData_noclear(fs, t, expiry, max_age_days, repo, force_refresh, nets, writable) ==
    LET LoadRockets(st) ==
            TrackerTry(st, "rockets", expiry, nets.rockets, writable)
        LoadLaunchpads(st) ==
            TrackerTry(st, "launchpads", expiry, nets.launchpads, writable)
        LoadLaunches(st) ==
            TrackerTry(st, "launches", expiry, nets.launches, writable)
        rockets == {LoadRockets(st) : st \in {Loading(fs, t, repo, EmptyDict)}}
        launchpads == {LoadLaunchpads(st) : st \in rockets}
    IN  Only({LoadLaunches(st) : st \in launchpads})

\* SpaceXTracker.load_data(force_refresh)
TrackerLoadData(fs, t, expiry, max_age_days, repo, force_refresh, nets, writable) ==
    LET cleared == IF force_refresh
                   THEN clear_cache(fs, t, max_age_days, NoEndpoint)
                   ELSE fs
        LoadRockets(st) ==
            TrackerTry(st, "rockets", expiry, nets.rockets, writable)
        LoadLaunchpads(st) ==
            TrackerTry(st, "launchpads", expiry, nets.launchpads, writable)
        LoadLaunches(st) ==
            TrackerTry(st, "launches", expiry, nets.launches, writable)
        rockets == {LoadRockets(st) : st \in {Loading(cleared, t, repo, EmptyDict)}}
        launchpads == {LoadLaunchpads(st) : st \in rockets}
    IN  Only({LoadLaunches(st) : st \in launchpads})

\* st.session_state.<resource>_count
CountKey(resource) ==
    CASE resource = "rockets" -> "rockets_count"
      [] resource = "launchpads" -> "launchpads_count"
      [] resource = "launches" -> "launches_count"

\* One try block of SpaceXDashboard.load_data: fetch, load, keep the count;
\* on any exception show the error and return.
DashboardTry(st, resource, expiry, net, writable) ==
    LET Fetched(r) ==
            LET fetched == [st EXCEPT !.files = r.files, !.now = r.now,
                                      !.attempted = @ \cup {resource},
                                      !.events[resource] = r.events]
            IN  IF r.exc = "none" /\ r.value.py = "list"
                THEN [fetched EXCEPT
                         !.repo = Load(resource, st.repo, r.value.items, r.now),
                         !.session = Put(st.session, CountKey(resource),
                                         Len(r.value.items))]
                ELSE [fetched EXCEPT !.failed = @ \cup {resource},
                                     !.returned = TRUE]
    IN  IF st.returned THEN st
        ELSE Only({Fetched(r) : r \in {GetAll(resource, st.files, st.now,
                                               expiry, net, writable)}})

\* A load_data that goes on after a failed fetch, as the one of the CLI does.
DashboardLoadData_noreturn(fs, t, expiry, max_age_days, repo, session, force_refresh, nets, writable) ==
    LET cleared == IF force_refresh
                   THEN clear_cache(fs, t, max_age_days, NoEndpoint)
                   ELSE fs
        Resumed(st) == [st EXCEPT !.returned = FALSE]
        LoadRockets(st) ==
            DashboardTry(st, "rockets", expiry, nets.rockets, writable)
        LoadLaunchpads(st) ==
            DashboardTry(Resumed(st), "launchpads", expiry, nets.launchpads,
                         writable)
        LoadLaunches(st) ==
            DashboardTry(Resumed(st), "launches", expiry, nets.launches,
                         writable)
        Store(st) ==
            LET stored == Put(st.session, "data_repo", st.repo)
            IN  IF st.repo.launches # <<>>
                THEN [st EXCEPT
                         !.session = Put(Put(stored, "data_loaded", TRUE),
                                         "filtered_launches",
                                         st.repo.launches)]
                ELSE [st EXCEPT
                         !.session = Put(stored, "data_loaded", FALSE)]
        rockets == {LoadRockets(st) : st \in {Loading(cleared, t, repo,
                                                       session)}}
        launchpads == {LoadLaunchpads(st) : st \in rockets}
        launches == {LoadLaunches(st) : st \in launchpads}
    IN  Only({Store(st) : st \in launches})

\* SpaceXDashboard.load_data(force_refresh)
DashboardLoadData(fs, t, expiry, max_age_days, repo, session, force_refresh, nets, writable) ==
    LET cleared == IF force_refresh
                   THEN clear_cache(fs, t, max_age_days, NoEndpoint)
                   ELSE fs
        LoadRockets(st) ==
            DashboardTry(st, "rockets", expiry, nets.rockets, writable)
        LoadLaunchpads(st) ==
            DashboardTry(st, "launchpads", expiry, nets.launchpads, writable)
        LoadLaunches(st) ==
            DashboardTry(st, "launches", expiry, nets.launches, writable)
        Store(st) ==
            LET stored == Put(st.session, "data_repo", st.repo)
            IN  IF st.returned THEN st
                ELSE IF st.repo.launches # <<>>
                THEN [st EXCEPT
                         !.session = Put(Put(stored, "data_loaded", TRUE),
                                         "filtered_launches",
                                         st.repo.launches)]
                ELSE [st EXCEPT
                         !.session = Put(stored, "data_loaded", FALSE)]
        rockets == {LoadRockets(st) : st \in {Loading(cleared, t, repo,
                                                       session)}}
        launchpads == {LoadLaunchpads(st) : st \in rockets}
        launches == {LoadLaunches(st) : st \in launchpads}
    IN  Only({Store(st) : st \in launches})

\* del d[key]
Del(d, key) == [k \in DOMAIN d \ {key} |-> d[k]]

\* SpaceXDashboard.__init__ on the session: the two defaults, and the
\* repository, which is the one of the session (shared: the same object)
\* when the session has one and its data is loaded.
DashboardInit(session) ==
    LET flagged == IF "data_loaded" \in DOMAIN session THEN session
                   ELSE Put(session, "data_loaded", FALSE)
        listed == IF "filtered_launches" \in DOMAIN flagged THEN flagged
                  ELSE Put(flagged, "filtered_launches", <<>>)
        shared == "data_repo" \in DOMAIN listed /\ listed.data_loaded
    IN  [session |-> listed, shared |-> shared,
         data_repo |-> IF shared THEN listed.data_repo ELSE DataRepository]

\* No form: the filter form was not submitted in this run.
NoForm == [submitted |-> FALSE]

\* The forms submitted: an outcome with nothing else selected, or one
\* rocket selected.
Forms ==
    {[submitted |-> TRUE, selected_rockets |-> {},
      selected_outcome |-> outcome, selected_sites |-> {}] :
        outcome \in {"All", "Successful", "Failed", "Upcoming"}}
    \cup {[submitted |-> TRUE, selected_rockets |-> {"Falcon 9"},
            selected_outcome |-> "All", selected_sites |-> {}]}

\* datetime.combine(d.date(), datetime.min.time()) and (..., max.time()), in
\* whole seconds
StartOfDay(d) == Datetime(d.wall - (d.wall % SecondsPerDay), Nothing)
EndOfDay(d) ==
    Datetime(d.wall - (d.wall % SecondsPerDay) + SecondsPerDay - 1, Nothing)

\* min(all_dates) and max(all_dates): TypeError when naive and aware
\* datetimes are compared.
MinDate(launches) ==
    IF \E i, j \in 1..Len(launches) :
           DatetimeGE(launches[i].date_utc, launches[j].date_utc).exc # "none"
    THEN Raises("TypeError")
    ELSE Returns((CHOOSE i \in 1..Len(launches) :
                     \A j \in 1..Len(launches) :
                         DatetimeLE(launches[i].date_utc,
                                    launches[j].date_utc).value))
MaxDate(launches) ==
    IF MinDate(launches).exc # "none" THEN Raises("TypeError")
    ELSE Returns((CHOOSE i \in 1..Len(launches) :
                     \A j \in 1..Len(launches) :
                         DatetimeGE(launches[i].date_utc,
                                    launches[j].date_utc).value))

\* SpaceXDashboard.filter_data with the dates of the form left as they are:
\* the first and the last day of the launches.
filter_data(repo, session, form) ==
    LET listed == IF "filtered_launches" \in DOMAIN session THEN session
                  ELSE Put(session, "filtered_launches", repo.launches)
        min_date == MinDate(repo.launches)
        max_date == MaxDate(repo.launches)
        by_date == filter_launches(
                       repo.launches,
                       Some(StartOfDay(repo.launches[min_date.value].date_utc)),
                       Some(EndOfDay(repo.launches[max_date.value].date_utc)),
                       NoName, Nothing, NoName)
        OfRockets(launch) ==
            /\ launch.rocket_name # NoName
            /\ launch.rocket_name[1] \in form.selected_rockets
        OfSites(launch) ==
            /\ launch.launchpad_name # NoName
            /\ launch.launchpad_name[1] \in form.selected_sites
        Upcoming(launch) == launch.upcoming
        ByRockets(filtered) ==
            IF form.selected_rockets # {} THEN SelectSeq(filtered, OfRockets)
            ELSE filtered
        ByOutcome(filtered) ==
            CASE form.selected_outcome = "Successful" ->
                     filter_launches(filtered, Nothing, Nothing, NoName,
                                     Some(TRUE), NoName).value
              [] form.selected_outcome = "Failed" ->
                     filter_launches(filtered, Nothing, Nothing, NoName,
                                     Some(FALSE), NoName).value
              [] form.selected_outcome = "Upcoming" ->
                     SelectSeq(filtered, Upcoming)
              [] OTHER -> filtered
        BySites(filtered) ==
            IF form.selected_sites # {} THEN SelectSeq(filtered, OfSites)
            ELSE filtered
    IN  IF repo.launches = <<>> THEN [session |-> session, exc |-> "none"]
        ELSE IF min_date.exc # "none"
        THEN [session |-> listed, exc |-> min_date.exc]
        ELSE IF ~form.submitted THEN [session |-> listed, exc |-> "none"]
        ELSE IF by_date.exc # "none"
        THEN [session |-> listed, exc |-> by_date.exc]
        ELSE [session |->
                  Put(listed, "filtered_launches",
                      BySites(ByOutcome(ByRockets(by_date.value)))),
              exc |-> "none"]

\* One run of dashboard.py in a session: SpaceXDashboard() and run().
\* click: 'Refresh Data' was clicked; form: the filter form submitted, if
\* any.  Kept of the run: at_reload, the session when load_data starts or
\* would start; loaded, load_data was called; shared, the repository of the
\* run is the object the session holds.
DashboardRunning(fs, t, session, click, nets, form, writable) ==
    LET init == DashboardInit(session)
        started == invalidate_old_cache(fs, t, DefaultMaxCacheAgeDays, {}).files
        clicked == IF click
                   THEN Del(Put(init.session, "data_loaded", FALSE),
                            "filtered_launches")
                   ELSE init.session
        cleaned == invalidate_old_cache(started, t, DefaultMaxCacheAgeDays,
                                        {}).files
        Reloaded(st) ==
            IF init.shared THEN [st EXCEPT !.session.data_repo = st.repo]
            ELSE st
        Filtered(st) ==
            LET filtered == filter_data(st.repo, st.session, form)
            IN  IF st.session.data_loaded
                THEN [st EXCEPT !.session = filtered.session] @@
                     [exc |-> filtered.exc]
                ELSE st @@ [exc |-> "none"]
        loaded == IF clicked.data_loaded
                  THEN {Loading(cleaned, t, init.data_repo, clicked)}
                  ELSE {Reloaded(st) :
                           st \in {DashboardLoadData(
                                       cleaned, t, DefaultCacheExpiry,
                                       DefaultMaxCacheAgeDays, init.data_repo,
                                       clicked, FALSE, nets, writable)}}
    IN  Only({Filtered(st) @@ [at_reload |-> clicked,
                               loaded |-> ~clicked.data_loaded,
                               shared |-> init.shared] : st \in loaded})

\* The resource types whose entry a _read_cache would hit.
HitResources(fs, t, expiry) ==
    {resource \in Resources :
        _read_cache(fs, t, expiry, <<"/", resource>>).value # None}

\* The networks of one load_data, one per resource type.
AnswerNets(answers) ==
    [resource \in Resources |-> AnswerNet(resource, answers[resource])]

\* What is kept of a load_data: how the network answered, what the call
\* attempted, what failed, what each fetch did on the network, and
\* hit_before, the resource types that were cache hits when it started.
Loaded(front_end, force_refresh, answers, r, hit_before) ==
    [op |-> "load_data", front_end |-> front_end,
     force_refresh |-> force_refresh, answers |-> answers,
     attempted |-> r.attempted,
     failed |-> r.failed, events |-> r.events, hit_before |-> hit_before]

\* tracker.load_data(force_refresh) of the CLI
TrackerLoad(force_refresh, answers) ==
    /\ steps < MaxSteps
    /\ steps' = steps + 1
    /\ \E r \in {TrackerLoadData(files, now, cache_expiry, max_cache_age_days,
                                  tracker_data_repo, force_refresh,
                                  AnswerNets(answers), dir_exists)} :
          /\ files' = r.files
          /\ now' = r.now
          /\ tracker_data_repo' = r.repo
          /\ last' = Loaded("cli", force_refresh, answers, r,
                            HitResources(files, now, cache_expiry))
          /\ UNCHANGED <<cache_expiry, max_cache_age_days, dir_exists,
                         dashboard_data_repo, session_state>>

\* dashboard.load_data(force_refresh) of the dashboard
DashboardLoad(force_refresh, answers) ==
    /\ steps < MaxSteps
    /\ steps' = steps + 1
    /\ \E r \in {DashboardLoadData(files, now, cache_expiry, max_cache_age_days,
                                    dashboard_data_repo, session_state,
                                    force_refresh, AnswerNets(answers),
                                    dir_exists)} :
          /\ files' = r.files
          /\ now' = r.now
          /\ dashboard_data_repo' = r.repo
          /\ session_state' = r.session
          /\ last' = Loaded("dashboard", force_refresh, answers, r,
                            HitResources(files, now, cache_expiry))
          /\ UNCHANGED <<cache_expiry, max_cache_age_days, dir_exists,
                         tracker_data_repo>>

\* A run of the dashboard script in the session: the page is opened, or
\* the user has clicked or submitted something.
DashboardRun(click, answers, form) ==
    /\ steps < MaxSteps
    /\ steps' = steps + 1
    /\ \E r \in {DashboardRunning(files, now, session_state, click,
                                    AnswerNets(answers), form, TRUE)} :
          /\ files' = r.files
          /\ now' = r.now
          /\ cache_expiry' = DefaultCacheExpiry
          /\ max_cache_age_days' = DefaultMaxCacheAgeDays
          /\ dir_exists' = TRUE
          /\ dashboard_data_repo' = r.repo
          /\ session_state' = r.session
          /\ last' = [op |-> "run", click |-> click, answers |-> answers,
                      form |-> form, loaded |-> r.loaded, shared |-> r.shared,
                      at_reload |-> r.at_reload, attempted |-> r.attempted,
                      failed |-> r.failed, events |-> r.events, exc |-> r.exc]
          /\ UNCHANGED tracker_data_repo

\* The dashboard in one browser session.
NextDashboard ==
    \/ \E d \in TickSteps : Tick(d)
    \/ \E click \in BOOLEAN, answers \in [Resources -> Answers],
          form \in {NoForm} \cup Forms :
           DashboardRun(click, answers, form)

SpecDashboard == Init /\ [][NextDashboard]_vars

\* The two front ends on one cache directory.
NextLoad ==
    \/ \E d \in TickSteps : Tick(d)
    \/ \E force_refresh \in BOOLEAN, answers \in [Resources -> Answers] :
           TrackerLoad(force_refresh, answers)
    \/ \E force_refresh \in BOOLEAN, answers \in [Resources -> Answers] :
           DashboardLoad(force_refresh, answers)

SpecLoad == Init /\ [][NextLoad]_vars

---------------------------------------------------------------------------
\* The filters and the statistics on their own, on the launches that
\* Launch.from_api_data makes of the records of the service.

FalconHeavy == [id |-> "2", name |-> "Falcon Heavy"]

\* A failed launch of the same rocket one day later, a launch of that day
\* whose outcome is not known, an upcoming launch of the other rocket a
\* day after that, and an upcoming one whose date the service has not set.
LaterLaunch == [id |-> "2", name |-> "Later Launch",
                date_utc |-> IsoText(StartTime + SecondsPerDay, "Z"),
                success |-> Some(FALSE),
                rocket |-> "1", launchpad |-> "1", upcoming |-> FALSE]
UnknownLaunch == [id |-> "5", name |-> "Later Launch",
                  date_utc |-> IsoText(StartTime + SecondsPerDay, "Z"),
                  success |-> Nothing,
                  rocket |-> "2", launchpad |-> "1", upcoming |-> FALSE]
NextLaunch == [id |-> "3", name |-> "Later Launch",
               date_utc |-> IsoText(StartTime + 2 * SecondsPerDay, "Z"),
               success |-> Nothing,
               rocket |-> "2", launchpad |-> "1", upcoming |-> TRUE]
UndatedLaunch == [id |-> "4", name |-> "Later Launch",
                  success |-> Nothing,
                  rocket |-> "1", launchpad |-> "1", upcoming |-> TRUE]

LaunchRecords ==
    {TestLaunch, LaterLaunch, UnknownLaunch, NextLaunch, UndatedLaunch}

\* The rockets and launchpads of a repository: none loaded, or all.
RocketDicts ==
    {EmptyDict, load_rockets(DataRepository, <<Falcon9, FalconHeavy>>).rockets}
LaunchpadDicts ==
    {EmptyDict, load_launchpads(DataRepository, <<KSC>>).launchpads}

\* The launches a repository may hold.
SampleLaunches ==
    {Launch_from_api_data(data, rockets, launchpads, StartTime) :
        data \in LaunchRecords, rockets \in RocketDicts,
        launchpads \in LaunchpadDicts}

\* The launch lists the filters are tried on have at most this many
\* launches, the lists of the statistics at most MaxCounted.
MaxFiltered == 2
MaxCounted == 3

LaunchLists(n) == UNION {[1..k -> SampleLaunches] : k \in 0..n}

\* The dates the command line gives: none, a day, or a time with an offset.
DateTexts == {IsoText(StartTime, ""), IsoText(StartTime + SecondsPerDay, ""),
              IsoText(StartTime + SecondsPerDay + 3600, "+05:00")}
StartDates == {Nothing} \cup {parse_date(text) : text \in DateTexts}
EndDates == {Nothing, parse_date(IsoText(StartTime + SecondsPerDay, ""))}
RocketNameArgs == {NoName, Name(""), Name("falcon"), Name("HEAVY")}
SuccessArgs == {Nothing, Some(TRUE), Some(FALSE)}
SiteNameArgs == {NoName, Name("ksc")}

\* A call of filter_launches.
FilterLaunches(launches, start_date, end_date, rocket_name, success, site_name) ==
    \E r \in {filter_launches(launches, start_date, end_date, rocket_name,
                               success, site_name)} :
    /\ last' = [op |-> "filter_launches", launches |-> launches,
                start_date |-> start_date, end_date |-> end_date,
                rocket_name |-> rocket_name, success |-> success,
                site_name |-> site_name, value |-> r.value, exc |-> r.exc]
    /\ UNCHANGED <<files, now, cache_expiry, max_cache_age_days, steps,
                   dir_exists, front>>

\* One call of filter_launches on the launches of a new process.
NextFilter ==
    /\ last.op = "__init__"
    /\ \E launches \in LaunchLists(MaxFiltered), start_date \in StartDates,
          end_date \in EndDates, rocket_name \in RocketNameArgs,
          success \in SuccessArgs, site_name \in SiteNameArgs :
           FilterLaunches(launches, start_date, end_date, rocket_name,
                          success, site_name)

SpecFilter == Init /\ [][NextFilter]_vars

\* A call of calculate_success_rate_by_rocket.
CalculateSuccessRateByRocket(launches) ==
    /\ last' = [op |-> "calculate_success_rate_by_rocket",
                launches |-> launches,
                value |-> calculate_success_rate_by_rocket(launches)]
    /\ UNCHANGED <<files, now, cache_expiry, max_cache_age_days, steps,
                   dir_exists, front>>

\* A call of generate_launch_summary.
GenerateLaunchSummary(launches) ==
    /\ last' = [op |-> "generate_launch_summary", launches |-> launches,
                value |-> generate_launch_summary(launches)]
    /\ UNCHANGED <<files, now, cache_expiry, max_cache_age_days, steps,
                   dir_exists, front>>

\* tracker.display_summary(filtered_launches) at the end of main.
DisplaySummary(launches) ==
    \E r \in {display_summary(launches)} :
    /\ last' = [op |-> "display_summary", launches |-> launches,
                exc |-> r.exc, printed |-> r.printed]
    /\ UNCHANGED <<files, now, cache_expiry, max_cache_age_days, steps,
                   dir_exists, front>>

\* One call of a statistics function on the launches of a new process.
NextStatistics ==
    /\ last.op = "__init__"
    /\ \E launches \in LaunchLists(MaxCounted) :
           \/ CalculateSuccessRateByRocket(launches)
           \/ GenerateLaunchSummary(launches)
           \/ DisplaySummary(launches)

SpecStatistics == Init /\ [][NextStatistics]_vars

\* A call of _get_cache_path by itself, on the new client: the method reads
\* nothing but its argument and self.cache_dir.
GetCachePath(endpoint) ==
    /\ last' = [op |-> "_get_cache_path", endpoint |-> endpoint,
                path |-> _get_cache_path(endpoint)]
    /\ UNCHANGED <<files, now, cache_expiry, max_cache_age_days, steps,
                   dir_exists, front>>

NextPath ==
    /\ last.op = "__init__"
    /\ \E endpoint \in PathEndpoints : GetCachePath(endpoint)

SpecPath == Init /\ [][NextPath]_vars

---------------------------------------------------------------------------
\* The client on a cache that fails: entries that are damaged from outside
\* and cache files that cannot be written.

\* What a damaged cache file written at time t holds: no JSON at all, JSON
\* that is no object (an array, a number), an object without timestamp, an
\* object without data, an object whose timestamp is a string.
MalformedTexts(t) ==
    {[json |-> "invalid"],
     [json |-> "array", items |-> <<>>],
     JsonNumber(5),
     [json |-> "object", fields |-> [data |-> json_dump(PyList(<<>>))]],
     [json |-> "object", fields |-> [timestamp |-> JsonNumber(t)]],
     [json |-> "object",
      fields |-> [timestamp |-> JsonString("yesterday"),
                  data |-> json_dump(PyList(<<>>))]]}

\* The endpoints whose entry gets damaged.
FaultEndpoints == {Rockets}

\* The cache file of an endpoint is overwritten from outside with a text
\* that no _write_cache produces.
Corrupt(endpoint, text) ==
    /\ files' = [files EXCEPT ![_get_cache_path(endpoint)] = File(now, text)]
    /\ last' = [op |-> "corrupt"]
    /\ UNCHANGED <<now, cache_expiry, max_cache_age_days, steps, dir_exists,
                   front>>

NextFaults ==
    \/ \E d \in TickSteps : Tick(d)
    \/ \E endpoint \in FaultEndpoints, text \in MalformedTexts(now) :
           Corrupt(endpoint, text)
    \/ \E endpoint \in FaultEndpoints : ReadCache(endpoint)
    \/ \E endpoint \in FaultEndpoints, use_cache \in BOOLEAN, net \in Networks,
          writable \in BOOLEAN :
           MakeRequest(endpoint, use_cache, net, writable)

SpecFaults == Init /\ [][NextFaults]_vars

---------------------------------------------------------------------------
\* What the claims speak of.

\* The cache file of an endpoint.
EntryOf(fs, endpoint) == fs[_get_cache_path(endpoint)]

HasEntry(fs, endpoint) == EntryOf(fs, endpoint).exists

\* The timestamp and the value written in the entry of an endpoint.
TimestampOf(fs, endpoint) == EntryOf(fs, endpoint).text.fields.timestamp.n
StoredValue(fs, endpoint) == json_load(EntryOf(fs, endpoint).text.fields.data)

\* The entry of the endpoint exists and now - timestamp <= cache_expiry.
Fresh(fs, t, expiry, endpoint) ==
    /\ HasEntry(fs, endpoint)
    /\ t - TimestampOf(fs, endpoint) <= expiry

AllFail(net) == \A i \in 1..Len(net) : ~net[i].ok

\* The last call was _make_request and the cache gave it no hit: the cache
\* was not used, or the entry of the endpoint was absent or expired.
RequestWithoutHit ==
    /\ last.op = "_make_request"
    /\ ~(last.use_cache /\ last.stored_before # None)

\* C1: read-through short-circuit.  A _make_request(e, use_cache=True)
\* issued while the entry of e is there and now - timestamp <= cache_expiry
\* returns the value stored in the entry, makes no network attempt, takes
\* no time and raises nothing, whatever the network would answer, also when
\* every attempt would fail.  The entry a successful fetch persisted is such
\* an entry until it is cleared, evicted or expires.
C1_ReadThroughShortCircuit ==
    (/\ last.op = "_make_request"
     /\ last.use_cache
     /\ last.stored_before # None)
    => /\ last.events = <<>>
       /\ last.exc = "none"
       /\ last.value = last.stored_before
       /\ last.elapsed = 0
       /\ last.unchanged

\* A second request right after one that fetched and cached, served from
\* the cache while the network is down.
C1_Witness ==
    /\ last.op = "_make_request"
    /\ last.use_cache
    /\ last.after_fetch
    /\ AllFail(last.net)
    /\ last.events = <<>>
    /\ last.exc = "none"
    /\ last.value \in Responses

\* C2: retry exhaustion.  When the cache gives no hit and every network
\* attempt fails, _make_request makes exactly 2 GETs, sleeps the 1 second
\* retry delay once, between the two, and raises the failure of the second
\* attempt.
C2_RetryExhaustion ==
    (RequestWithoutHit /\ AllFail(last.net))
    => /\ last.events = <<"GET", "sleep", "GET">>
       /\ Count(last.events, "GET") = 2
       /\ last.elapsed = 1
       /\ last.exc = last.net[2].error

\* A request that failed twice, in two ways, and raised the second failure.
C2_Witness ==
    /\ RequestWithoutHit
    /\ AllFail(last.net)
    /\ last.net[1].error # last.net[2].error
    /\ last.events = <<"GET", "sleep", "GET">>
    /\ last.exc = last.net[2].error

\* C3: retry then success.  When the cache gives no hit, the first attempt
\* fails and the second succeeds, _make_request returns the value of the
\* second attempt after exactly 2 GETs (one pause between them) and raises
\* nothing.
C3_RetryThenSuccess ==
    (/\ RequestWithoutHit
     /\ Len(last.net) = 2
     /\ ~last.net[1].ok
     /\ last.net[2].ok)
    => /\ last.events = <<"GET", "sleep", "GET">>
       /\ Count(last.events, "GET") = 2
       /\ last.exc = "none"
       /\ last.value = last.net[2].data

\* A request that got its value from the second attempt, with an expired
\* entry of another value in the cache.
C3_Witness ==
    /\ RequestWithoutHit
    /\ Len(last.net) = 2
    /\ last.net[2].ok
    /\ last.events = <<"GET", "sleep", "GET">>
    /\ last.value = last.net[2].data
    /\ last.use_cache

\* C4: write/read round trip.  For every endpoint e and every value v the
\* remote service can return, a _read_cache(e) called right after
\* _write_cache(e, v) returns v.
C4_WriteReadRoundTrip ==
    (/\ last.op = "_read_cache"
     /\ last.wrote \in Responses)
    => /\ last.value = last.wrote
       /\ last.exc = "none"

\* A read that gave back the record written just before.
C4_Witness ==
    /\ last.op = "_read_cache"
    /\ last.wrote \in Responses
    /\ last.value = last.wrote
    /\ last.value = PyDict(Falcon9)

\* C5: expiry on read without deletion.  _read_cache(e) returns the stored
\* value exactly when the entry of e exists and now - timestamp <=
\* cache_expiry, and returns None otherwise; it raises nothing and leaves
\* the cache directory as it was, the file of an expired entry included.
C5_ExpiryOnReadWithoutDeletion ==
    last.op = "_read_cache"
    => /\ last.unchanged
       /\ last.exc = "none"
       /\ last.value # None <=> Fresh(files, now, cache_expiry, last.endpoint)
       /\ last.value # None => last.value = StoredValue(files, last.endpoint)

\* A read of an expired entry: it gave None and the file is still there.
C5_Witness ==
    /\ last.op = "_read_cache"
    /\ HasEntry(files, last.endpoint)
    /\ now - TimestampOf(files, last.endpoint) > cache_expiry
    /\ last.value = None
    /\ last.unchanged

\* C6: no stale fallback.  When the entry of e is absent or expired and both
\* network attempts fail, _make_request(e) raises, returns no value (the
\* expired one neither) and leaves the cache directory as it was.
C6_NoStaleFallback ==
    (/\ last.op = "_make_request"
     /\ last.use_cache
     /\ last.stored_before = None
     /\ AllFail(last.net))
    => /\ last.exc # "none"
       /\ last.value = None
       /\ last.unchanged

\* A request that failed while an expired entry of its endpoint was there.
C6_Witness ==
    /\ last.op = "_make_request"
    /\ last.use_cache
    /\ AllFail(last.net)
    /\ HasEntry(files, last.endpoint)
    /\ now - TimestampOf(files, last.endpoint) > cache_expiry
    /\ last.exc # "none"
    /\ last.unchanged

\* What _read_cache(endpoint) gives in a directory at a time.
Reads(fs, t, expiry, endpoint) == _read_cache(fs, t, expiry, endpoint).value

\* The cutoff of an eviction pass.
Cutoff(t, max_age_days) == t - max_age_days * 86400

\* C7: eviction is independent of expiry.  invalidate_old_cache(d) removes
\* every entry whose file modification time is older than now - d*86400,
\* also one that is not expired, and its endpoints then read as None; every
\* other entry survives the pass unchanged and its endpoints read as they
\* did before the pass: as the stored value when the entry is not expired.
C7_EvictionIndependentOfExpiry ==
    [][last'.op = "invalidate_old_cache"
       => \A endpoint \in Endpoints :
             HasEntry(files, endpoint)
             => IF EntryOf(files, endpoint).mtime
                       < Cutoff(now, last'.max_age_days)
                THEN /\ ~HasEntry(files', endpoint)
                     /\ Reads(files', now', cache_expiry', endpoint) = None
                ELSE /\ EntryOf(files', endpoint) = EntryOf(files, endpoint)
                     /\ Reads(files', now', cache_expiry', endpoint)
                            = Reads(files, now, cache_expiry, endpoint)
                     /\ Fresh(files, now, cache_expiry, endpoint)
                        => Reads(files', now', cache_expiry', endpoint)
                               = StoredValue(files, endpoint)]_vars

\* A pass that removed an entry that was a cache hit and left another one
\* that still is.
C7_Witness ==
    /\ last.op = "invalidate_old_cache"
    /\ last.evicted_hit
    /\ \E endpoint \in Endpoints : Fresh(files, now, cache_expiry, endpoint)

\* C8: selective clear.  For two endpoints a and b with different cache
\* files, clear_cache(a) leaves a without entry, so that a reads as None,
\* and leaves the entry of b as it was, so that b, if it was not expired,
\* still reads as its stored value; on an endpoint without entry
\* clear_cache(a) changes nothing.
C8_SelectiveClear ==
    [][(last'.op = "clear_cache" /\ last'.endpoint \in Endpoints)
       => LET a == last'.endpoint IN
          /\ ~HasEntry(files', a)
          /\ Reads(files', now', cache_expiry', a) = None
          /\ ~HasEntry(files, a) => files' = files
          /\ \A b \in Endpoints :
                _get_cache_path(b) # _get_cache_path(a)
                => /\ EntryOf(files', b) = EntryOf(files, b)
                   /\ Fresh(files, now, cache_expiry, b)
                      => Reads(files', now', cache_expiry', b)
                             = StoredValue(files, b)]_vars

\* A clear of one endpoint while all were cache hits: the other entry is
\* still a hit.
C8_Witness ==
    /\ last.op = "clear_cache"
    /\ last.endpoint \in Endpoints
    /\ last.all_hit_before
    /\ ~HasEntry(files, last.endpoint)
    /\ \E b \in Endpoints : Fresh(files, now, cache_expiry, b)

\* C9: clear all.  After clear_cache() the directory holds no cache entry
\* and every endpoint reads as None.
C9_ClearAll ==
    (last.op = "clear_cache" /\ last.endpoint = NoEndpoint)
    => /\ Entries(files) = {}
       /\ \A endpoint \in Endpoints :
             Reads(files, now, cache_expiry, endpoint) = None

\* A clear_cache() called while every endpoint was a cache hit.
C9_Witness ==
    /\ last.op = "clear_cache"
    /\ last.endpoint = NoEndpoint
    /\ last.all_hit_before
    /\ Entries(files) = {}

\* C10: clear_cache ends with an eviction pass.  When clear_cache(a) or
\* clear_cache() returns, no entry is left whose file modification time is
\* older than now - max_cache_age_days*86400: the directory is as if
\* invalidate_old_cache(max_cache_age_days) had run after the removal, which
\* is what the first definition of clear_cache does.
C10_ClearCacheEvicts ==
    [][last'.op = "clear_cache"
       => /\ \A name \in Entries(files') :
                ~(files'[name].mtime < Cutoff(now', max_cache_age_days'))
          /\ files' = clear_cache_first(files, now, max_cache_age_days,
                                        last'.endpoint)]_vars

\* C11: malformed entries are silent misses.  For every entry whose file
\* is no JSON, is JSON but no object, lacks the timestamp or the data, or
\* has a timestamp that is no number, _read_cache returns None and raises
\* nothing.
C11_MalformedEntriesAreSilentMisses ==
    (last.op = "_read_cache" /\ last.corrupted)
    => /\ last.value = None
       /\ last.exc = "none"

\* The last call was a _make_request that went to the network and whose
\* last attempt succeeded.
RequestFetched ==
    /\ last.op = "_make_request"
    /\ Count(last.events, "GET") > 0
    /\ last.net[Len(last.net)].ok

\* C12: a cache write failure never fails a fetch.  When a network attempt
\* of _make_request(e, use_cache=True) succeeds with value v and the cache
\* file cannot be written, the call returns v, raises nothing and makes no
\* network attempt after the successful one.
C12_WriteFailureNeverFailsFetch ==
    (RequestFetched /\ last.use_cache /\ ~last.writable)
    => /\ last.value = last.net[Len(last.net)].data
       /\ last.exc = "none"
       /\ Count(last.events, "GET") = Len(last.net)
       /\ last.events[Len(last.events)] = "GET"

\* A fetch that succeeded on the retry while the cache could not be
\* written.
C12_Witness ==
    /\ RequestFetched
    /\ last.use_cache
    /\ ~last.writable
    /\ Len(last.net) = 2
    /\ last.value = PyDict(Falcon9)
    /\ ~HasEntry(files, last.endpoint)

\* C13: cache bypass.  _make_request(e, use_cache=False) neither reads nor
\* writes the cache: it makes at least one network attempt, also when a
\* non-expired entry of e is there, its outcome is that of the network alone
\* (a malformed entry of e raises nothing), and it leaves the cache
\* directory as it was whether it succeeds or fails.
C13_CacheBypass ==
    (last.op = "_make_request" /\ ~last.use_cache)
    => /\ Count(last.events, "GET") >= 1
       /\ last.unchanged
       /\ IF AllFail(last.net)
          THEN last.exc = last.net[Len(last.net)].error
          ELSE /\ last.exc = "none"
               /\ last.value = last.net[Len(last.net)].data

\* A request that bypassed a non-expired entry and fetched another value.
C13_Witness ==
    /\ last.op = "_make_request"
    /\ ~last.use_cache
    /\ last.stored_before \in Responses
    /\ last.exc = "none"
    /\ last.value # last.stored_before
    /\ StoredValue(files, last.endpoint) = last.stored_before

\* C14: construction performs one eviction pass.  When
\* SpaceXAPIClient(cache_dir, cache_expiry, max_cache_age_days) returns at
\* time now, the cache directory exists, no entry is left whose file
\* modification time is older than now - max_cache_age_days*86400, and every
\* other file an earlier client left is still there unchanged.
C14_ConstructionEvicts ==
    [][last'.op = "__init__"
       => /\ dir_exists'
          /\ \A name \in FileNames :
                IF /\ name \in Entries(files)
                   /\ files[name].mtime < Cutoff(now', max_cache_age_days')
                THEN ~Exists(files', name)
                ELSE files'[name] = files[name]]_vars

\* A client constructed on a directory with an old entry, which it removed,
\* and a younger one, which it kept.
C14_Witness ==
    /\ last.op = "__init__"
    /\ last.evicted # {}
    /\ Entries(files) # {}
    /\ dir_exists

\* C15: eviction is idempotent.  In every state of the store, for every
\* max age d and whichever files cannot be removed, a second
\* invalidate_old_cache(d) at the same time leaves the directory as the
\* first left it: it removes nothing more.  The same holds of
\* periodic_cleanup, which is one such pass.
C15_EvictionIdempotent ==
    \A d \in MaxAgeDaysArgs \cup MaxCacheAgeDaysChoices,
       undeletable \in SUBSET Entries(files) :
        LET once == invalidate_old_cache(files, now, d, undeletable).files
        IN  /\ invalidate_old_cache(once, now, d, undeletable).files = once
            /\ last.op \in {"invalidate_old_cache", "periodic_cleanup"}
               => invalidate_old_cache(files, now, last.max_age_days, {}).files
                      = files

\* A pass that removed an entry that was a cache hit: a second pass finds
\* nothing old.
C15_Witness ==
    /\ last.op = "invalidate_old_cache"
    /\ last.evicted_hit
    /\ \A name \in Entries(files) :
          ~(files[name].mtime < Cutoff(now, last.max_age_days))

\* C16: only network failures cross the client boundary and the cache
\* heals itself.  When the entry of e is malformed and the network succeeds
\* with value v, _make_request(e) raises nothing, returns v and overwrites
\* the entry with the timestamp of now and v, so that a _read_cache(e) within
\* the expiry window returns v.
C16_CorruptedEntrySelfHeals ==
    (/\ last.op = "_make_request"
     /\ last.use_cache
     /\ last.writable
     /\ last.corrupted
     /\ last.net[Len(last.net)].ok)
    => /\ last.exc = "none"
       /\ last.value = last.net[Len(last.net)].data
       /\ EntryOf(files, last.endpoint)
              = File(now, CacheText(now, last.value))
       /\ Reads(files, now, cache_expiry, last.endpoint) = last.value

\* The parts of an endpoint or of a file name that are no separators.
Segments(s) ==
    LET IsSegment(token) == token \notin {"/", "_", ".json"}
    IN  SelectSeq(s, IsSegment)

\* C17: cache key sanitization.  The file name _get_cache_path gives an
\* endpoint ends in ".json" and holds, before it, the segments of the
\* endpoint in their order with no "/" at all and no "_" at either end
\* ("/test/endpoint" gives "test_endpoint.json"); two different endpoints
\* built by the accessors, such as "/launches/<id>" and "/rockets/<id>",
\* get different file names.
C17_CacheKeySanitization ==
    last.op = "_get_cache_path"
    => LET path == last.path
           key == SubSeq(path, 1, Len(path) - 1)
       IN  /\ path[Len(path)] = ".json"
           /\ \A i \in 1..Len(key) : key[i] \notin {"/", ".json"}
           /\ key # <<>> => key[1] # "_" /\ key[Len(key)] # "_"
           /\ Segments(key) = Segments(last.endpoint)
           /\ Len(key) <= Len(last.endpoint)
           /\ last.endpoint = <<"/", "test", "/", "endpoint">>
              => path = <<"test", "_", "endpoint", ".json">>
           /\ last.endpoint \in AccessorEndpoints
              => \A other \in AccessorEndpoints :
                    _get_cache_path(other) = path => other = last.endpoint

\* The file name of "/launches/<id>".
C17_Witness ==
    /\ last.op = "_get_cache_path"
    /\ last.endpoint = <<"/", "launches", "/", "5eb87d">>
    /\ last.path = <<"launches", "_", "5eb87d", ".json">>
    /\ last.path # _get_cache_path(<<"/", "rockets", "/", "5eb87d">>)

\* The endpoint each accessor is said to be bound to.
BoundEndpoint(accessor, id) ==
    CASE accessor = "get_all_launches" -> <<"/", "launches">>
      [] accessor = "get_all_rockets" -> <<"/", "rockets">>
      [] accessor = "get_all_launchpads" -> <<"/", "launchpads">>
      [] accessor = "get_past_launches" -> <<"/", "launches", "/", "past">>
      [] accessor = "get_upcoming_launches" ->
             <<"/", "launches", "/", "upcoming">>
      [] accessor = "get_launch_by_id" -> <<"/", "launches", "/", id>>
      [] accessor = "get_rocket_by_id" -> <<"/", "rockets", "/", id>>
      [] accessor = "get_launchpad_by_id" -> <<"/", "launchpads", "/", id>>

\* C20: the resource accessors are pure bindings.  A call of
\* get_all_launches, get_all_rockets or get_all_launchpads, or of a by-id
\* accessor, does what one _make_request of "/launches", "/rockets",
\* "/launchpads" or "/<resource>/<id>" with use_cache=True does: the same
\* value or exception, the same network attempts and pauses, the same cache
\* directory afterwards.
C20_AccessorsArePureBindings ==
    [][last'.op \in AllAccessors \cup ByIdAccessors
       => LET r == _make_request(files, now, cache_expiry,
                                 BoundEndpoint(last'.op, last'.id), TRUE,
                                 last'.net, dir_exists)
          IN  /\ last'.value = r.value
              /\ last'.exc = r.exc
              /\ last'.events = r.events
              /\ files' = r.files
              /\ now' = r.now]_vars

\* get_launchpad_by_id served from the entry its own earlier call cached
\* under "/launchpads/<id>".
C20_Witness ==
    /\ last.op = "get_launchpad_by_id"
    /\ last.id = "5e9d0d"
    /\ last.events = <<>>
    /\ last.value = PyDict(Falcon9)
    /\ StoredValue(files, <<"/", "launchpads", "/", "5e9d0d">>) = last.value
    /\ ~HasEntry(files, <<"/", "launches", "/", "5e9d0d">>)

\* The repository of the front end whose load_data ran last.
LoadedRepo ==
    IF last.front_end = "cli" THEN tracker_data_repo ELSE dashboard_data_repo

\* The repository holds what the service returns for the resource type.
RepoHas(repo, resource) ==
    CASE resource = "rockets" ->
             /\ Falcon9.id \in DOMAIN repo.rockets
             /\ repo.rockets[Falcon9.id].name = Falcon9.name
      [] resource = "launchpads" ->
             /\ KSC.id \in DOMAIN repo.launchpads
             /\ repo.launchpads[KSC.id].name = KSC.name
      [] resource = "launches" ->
             \E i \in 1..Len(repo.launches) :
                 repo.launches[i].id = TestLaunch.id

\* The fetch of the resource type failed in the last load_data: it was
\* attempted, it went to the network and the network failed twice.
FetchFailed(resource) ==
    /\ resource \in last.attempted
    /\ last.events[resource] # <<>>
    /\ last.answers[resource] = "fail"

\* The order in which load_data fetches.
LoadOrder == <<"rockets", "launchpads", "launches">>

\* C18 as claimed: front ends isolate failures per resource type.  In the
\* CLI load_data and in the dashboard load_data alike, a fetch failure of
\* one resource type is caught and reported, the load of the remaining
\* types is still attempted, and what was fetched for the other types is in
\* the repository.
C18_FailuresIsolatedInBothFrontEnds ==
    last.op = "load_data"
    => /\ last.attempted = Resources
       /\ last.failed = {resource \in Resources : FetchFailed(resource)}
       /\ \A resource \in Resources \ last.failed :
             RepoHas(LoadedRepo, resource)

\* C18 as amended: the CLI load_data isolates failures per resource type:
\* it catches and reports a fetch failure, attempts all three types and has
\* in its repository what was fetched for the types that did not fail.  The
\* dashboard load_data catches and reports the first fetch failure and
\* returns: it attempts the types in the order rockets, launchpads,
\* launches up to the first that fails, none after it, and has in its
\* repository what was fetched before the failure.
C18_FailureHandlingPerFrontEnd ==
    last.op = "load_data"
    => /\ last.failed = {resource \in Resources : FetchFailed(resource)}
       /\ \A resource \in last.attempted \ last.failed :
             RepoHas(LoadedRepo, resource)
       /\ last.front_end = "cli" => last.attempted = Resources
       /\ last.front_end = "dashboard"
          => /\ Cardinality(last.failed) <= 1
             /\ \E n \in 1..3 :
                   /\ last.attempted = {LoadOrder[i] : i \in 1..n}
                   /\ last.failed \subseteq {LoadOrder[n]}
                   /\ n < 3 => last.failed = {LoadOrder[n]}

\* A dashboard load that stopped at the launchpads: the rockets are in the
\* repository, the launches were not asked for although the network would
\* have answered.
C18_Witness ==
    /\ last.op = "load_data"
    /\ last.front_end = "dashboard"
    /\ last.failed = {"launchpads"}
    /\ last.attempted = {"rockets", "launchpads"}
    /\ last.answers["launches"] = "ok"
    /\ RepoHas(dashboard_data_repo, "rockets")
    /\ dashboard_data_repo.launches = <<>>

\* C19: a forced refresh reaches the network.  load_data(force_refresh=True)
\* clears the whole cache first: every fetch of the call makes at least one
\* network attempt, none is served from an entry written before the call;
\* in the CLI these are the three fetches of rockets, launchpads and
\* launches.
C19_ForcedRefreshReachesNetwork ==
    (last.op = "load_data" /\ last.force_refresh)
    => /\ \A resource \in last.attempted :
             Count(last.events[resource], "GET") >= 1
       /\ last.front_end = "cli" => last.attempted = Resources

\* A forced CLI load that started with all three resource types as cache
\* hits and fetched each of them from the network.
C19_Witness ==
    /\ last.op = "load_data"
    /\ last.front_end = "cli"
    /\ last.force_refresh
    /\ last.hit_before = Resources
    /\ last.failed = {}
    /\ \A resource \in Resources :
          Count(last.events[resource], "GET") >= 1

---------------------------------------------------------------------------
\* Claims about the filters and the statistics.

\* The instant a date stands for, a naive one read as UTC.
AsUtc(d) == IF d.tzinfo = Nothing THEN d.wall ELSE Instant(d)

\* The launch satisfies every criterion of the call kept in `last` that was
\* given.
Satisfies(launch) ==
    /\ last.start_date # Nothing
           => AsUtc(launch.date_utc) >= AsUtc(last.start_date[1])
    /\ last.end_date # Nothing
           => AsUtc(launch.date_utc) <= AsUtc(last.end_date[1])
    /\ last.rocket_name # NoName
           => /\ launch.rocket_name # NoName
              /\ In(lower(last.rocket_name[1]), lower(launch.rocket_name[1]))
    /\ last.site_name # NoName
           => /\ launch.launchpad_name # NoName
              /\ In(lower(last.site_name[1]), lower(launch.launchpad_name[1]))
    /\ last.success # Nothing
           => launch.success = last.success

\* C21: filter_launches returns, in input order and without duplication,
\* exactly the launches that satisfy every criterion that was given: the
\* inclusive date bounds, the rocket and site names as case-insensitive
\* substrings (a launch without the name never matches), and the success
\* flag (an unknown success matches neither True nor False); without any
\* criterion it returns the input list.
C21_FilterLaunchesExact ==
    last.op = "filter_launches"
        => /\ last.exc = "none"
           /\ last.value = SelectSeq(last.launches, Satisfies)

\* The launches of the call kept in `last` that have this rocket name and
\* are not upcoming, by their place in the list.
Flown(rocket_name) ==
    {i \in 1..Len(last.launches) :
        /\ last.launches[i].rocket_name = Name(rocket_name)
        /\ ~last.launches[i].upcoming}

\* The rocket names of the launches of the call kept in `last`.
RocketNamesOf(launches) ==
    {launches[i].rocket_name[1] :
        i \in {j \in 1..Len(launches) : launches[j].rocket_name # NoName}}

\* C22: calculate_success_rate_by_rocket counts only the launches that have
\* a rocket name and are not upcoming: a rocket is in the result if and only
\* if it has such a launch, its rate is 100 * successes / launches over
\* those, and a rocket with only upcoming launches is absent.
C22_SuccessRateByRocket ==
    last.op = "calculate_success_rate_by_rocket"
        => /\ DOMAIN last.value =
                  {name \in RocketNamesOf(last.launches) : Flown(name) # {}}
           /\ \A name \in DOMAIN last.value :
                  last.value[name].numerator * Cardinality(Flown(name))
                      = 100 * Cardinality({i \in Flown(name) :
                                  last.launches[i].success = Some(TRUE)})
                            * last.value[name].denominator

\* Rates were computed for a list in which one rocket has only upcoming
\* launches and another has flown with and without success.
C22_Witness ==
    /\ last.op = "calculate_success_rate_by_rocket"
    /\ \E name \in RocketNamesOf(last.launches) : name \notin DOMAIN last.value
    /\ \E name \in DOMAIN last.value :
           /\ last.value[name] # ZeroFloat
           /\ last.value[name] # Percent(1, 1)

\* C23: for every non-empty list the counts of generate_launch_summary are
\* consistent: total = upcoming + completed, completed counts exactly the
\* launches that are not upcoming, successful + failed <= completed, and
\* the success rate is 0 when nothing is completed.
C23_SummaryCountsConsistent ==
    (last.op = "generate_launch_summary" /\ last.launches # <<>>)
        => /\ last.value["total_launches"]
                  = last.value["upcoming_launches"]
                        + last.value["completed_launches"]
           /\ last.value["completed_launches"]
                  = Cardinality({i \in 1..Len(last.launches) :
                                    ~last.launches[i].upcoming})
           /\ last.value["successful_launches"] + last.value["failed_launches"]
                  <= last.value["completed_launches"]
           /\ last.value["completed_launches"] = 0
                  => last.value["success_rate"] = ZeroFloat

\* A summary was made of launches that are all upcoming.
C23_Witness ==
    /\ last.op = "generate_launch_summary"
    /\ last.value["total_launches"] = MaxCounted
    /\ last.value["completed_launches"] = 0

\* C28: generate_launch_summary returns every key that display_summary
\* reads, for the empty list as for any other, so the summary display of
\* the CLI ends without an error when there is no launch to show.
C28_SummaryHasEveryKey ==
    /\ last.op = "generate_launch_summary"
           => \A i \in 1..Len(SummaryKeys) : SummaryKeys[i] \in DOMAIN last.value
    /\ last.op = "display_summary" => last.exc = "none"

---------------------------------------------------------------------------
\* Claims about failures of the service and of the cache directory.

\* C24: an unparsable body is retried like any other failure.  When the
\* first attempt of _make_request has a success status and a body that does
\* not parse, nothing is written to the cache, the call waits the retry
\* delay and makes a second attempt; when the body of the second attempt
\* does not parse either, the failure is raised after exactly 2 attempts.
C24_UnparsableBodyRetried ==
    (RequestWithoutHit /\ last.net[1] = Unparsable)
        => /\ last.events = <<"GET", "sleep", "GET">>
           /\ last.elapsed = RetryDelay
           /\ ~last.net[2].ok => last.unchanged
           /\ last.net[2].ok
                  => last.value = last.net[2].data /\ last.exc = "none"
           /\ last.net[2] = Unparsable
                  => /\ last.exc = "JSONDecodeError"
                     /\ Count(last.events, "GET") = NumAttempts

\* A caching request got two unparsable bodies and raised.
C24_Witness ==
    /\ RequestWithoutHit
    /\ last.use_cache
    /\ last.net = <<Unparsable, Unparsable>>
    /\ last.exc = "JSONDecodeError"
    /\ last.unchanged

\* C25: a deletion failure does not abort an eviction pass.  When
\* invalidate_old_cache finds several entries older than the cutoff and the
\* removal of one of them fails with an I/O error, the pass still removes
\* every other entry older than the cutoff, raises nothing, and leaves only
\* the failed entry behind.
C25_DeletionFailureDoesNotAbort ==
    last.op = "invalidate_old_cache"
        => /\ last.exc = "none"
           /\ \A name \in last.old \ last.undeletable : ~Exists(files, name)
           /\ {name \in Entries(files) :
                  files[name].mtime < Cutoff(now, last.max_age_days)}
                  = last.old \cap last.undeletable

\* A pass found two old entries, could not remove one and removed the other.
C25_Witness ==
    /\ last.op = "invalidate_old_cache"
    /\ Cardinality(last.old) = 2
    /\ Cardinality(last.old \cap last.undeletable) = 1
    /\ Cardinality(Entries(files) \cap last.old) = 1
    /\ last.exc = "none"

\* Every entry has the modification time of the timestamp written in it.
Consistent(fs) ==
    \A name \in Entries(fs) :
        /\ WellFormed(fs[name].text)
        /\ fs[name].mtime = fs[name].text.fields.timestamp.n

\* The step is an eviction pass: of a constructor, of periodic_cleanup, or a
\* direct call of invalidate_old_cache.
EvictionStep ==
    last'.op \in {"__init__", "periodic_cleanup", "invalidate_old_cache"}

\* The maximum age the pass of the step runs with.
PassAgeDays ==
    IF last'.op = "invalidate_old_cache" THEN last'.max_age_days
    ELSE max_cache_age_days'

\* C26, as claimed: under a consistent configuration, cache_expiry <=
\* max_cache_age_days * 86400 and every modification time equal to the
\* timestamp of its entry, an entry that is a cache hit just before an
\* eviction pass is a cache hit just after it.
C26_EvictionKeepsHits ==
    [][(/\ EvictionStep
        /\ Consistent(files)
        /\ cache_expiry' <= max_cache_age_days' * SecondsPerDay)
       => Hits(files, now, cache_expiry') \subseteq
              Hits(files', now', cache_expiry')]_vars

\* C26, amended: the same of every pass whose own maximum age is no shorter
\* than the expiry, cache_expiry <= max_age_days * 86400, as it is for the
\* passes of the constructor and of periodic_cleanup under that
\* configuration.
C26_EvictionWithConfiguredAgeKeepsHits ==
    [][(/\ EvictionStep
        /\ Consistent(files)
        /\ cache_expiry' <= PassAgeDays * SecondsPerDay)
       => Hits(files, now, cache_expiry') \subseteq
              Hits(files', now', cache_expiry')]_vars

\* periodic_cleanup ran on an entry that is exactly as old as the expiry
\* and the maximum age allow, and the entry is still a hit.
C26_Witness ==
    /\ last.op = "periodic_cleanup"
    /\ cache_expiry = max_cache_age_days * SecondsPerDay
    /\ Consistent(files)
    /\ \E endpoint \in Hits(files, now, cache_expiry) :
           now - EntryOf(files, endpoint).mtime = cache_expiry

---------------------------------------------------------------------------
\* Claims about the dashboard session and the repository.

\* C27: a reload of the dashboard does not duplicate data.  After any
\* sequence of runs and 'Refresh Data' clicks in one session, once a load
\* has succeeded the repository of the session holds exactly one Launch per
\* record of the most recent launches fetch: its launch count is
\* launches_count, the length of that response, not a multiple of it.
C27_ReloadDoesNotDuplicate ==
    session_state.data_loaded
        => Len(session_state.data_repo.launches)
               = session_state.launches_count

\* C29: the loaded flag of the dashboard.  data_loaded is true only if the
\* session holds a repository with a non-empty launch list and the load_data
\* that set the flag fetched rockets, launchpads and launches without a
\* failure: no step without a load_data sets it, and a load_data after
\* which it is true has attempted all three and failed none.  A 'Refresh
\* Data' click sets data_loaded to false and removes filtered_launches
\* before any reload starts.
C29_LoadedFlag ==
    [][(last'.op = "run")
       => /\ session_state'.data_loaded
                => /\ "data_repo" \in DOMAIN session_state'
                   /\ session_state'.data_repo.launches # <<>>
          /\ (session_state'.data_loaded /\ last'.loaded)
                => last'.failed = {} /\ last'.attempted = Resources
          /\ (session_state'.data_loaded /\ ~last'.loaded)
                => session_state.data_loaded /\ ~last'.click
          /\ last'.click
                => /\ ~last'.at_reload.data_loaded
                   /\ "filtered_launches" \notin DOMAIN last'.at_reload
                   /\ last'.loaded]_vars

\* 'Refresh Data' was clicked in a session whose data was loaded, and the
\* reload succeeded.
C29_Witness ==
    /\ last.op = "run"
    /\ last.click
    /\ last.shared
    /\ last.loaded
    /\ session_state.data_loaded

\* The launches of new after the ones of old were added with the names
\* resolved in the rockets and launchpads of new, and the ones of old are
\* as they were.
AddedResolved(old, new) ==
    /\ Len(new.launches) >= Len(old.launches)
    /\ \A i \in 1..Len(old.launches) : new.launches[i] = old.launches[i]
    /\ \A i \in (Len(old.launches) + 1)..Len(new.launches) :
           LET launch == new.launches[i]
           IN  /\ launch.rocket_name =
                      IF launch.rocket_id \in DOMAIN new.rockets
                      THEN Name(new.rockets[launch.rocket_id].name)
                      ELSE NoName
               /\ launch.launchpad_name =
                      IF launch.launchpad_id \in DOMAIN new.launchpads
                      THEN Name(new.launchpads[launch.launchpad_id].name)
                      ELSE NoName

HasRocketName(launch) == launch.rocket_name # NoName

\* No rocket-name filter returns a launch without a rocket name, and the
\* success rates by rocket are the ones of the launches with a name.
UnnamedExcluded(launches) ==
    /\ \A rocket_name \in {"", "falcon", "Falcon 9", "HEAVY"} :
           LET filtered == filter_by_rocket_name(launches, rocket_name)
           IN  \A i \in 1..Len(filtered) : HasRocketName(filtered[i])
    /\ calculate_success_rate_by_rocket(launches) =
           calculate_success_rate_by_rocket(SelectSeq(launches, HasRocketName))

\* C30: name resolution depends on the load order.  add_launch sets the
\* rocket_name (launchpad_name) of a launch to the name of the rocket
\* (launchpad) with its id if and only if that id is in the repository when
\* the launch is added.  A launch added while its rocket is missing keeps
\* rocket_name unset for good, also when the rocket is loaded later, and is
\* excluded by every rocket-name filter and from the success rates by
\* rocket.
C30_NamesResolvedWhenAdded ==
    [][/\ AddedResolved(tracker_data_repo, tracker_data_repo')
       /\ AddedResolved(dashboard_data_repo, dashboard_data_repo')
       /\ UnnamedExcluded(tracker_data_repo'.launches)
       /\ UnnamedExcluded(dashboard_data_repo'.launches)]_vars

\* The CLI holds a launch without a rocket name whose rocket was loaded
\* later, next to a launch of the same rocket added after it.
C30_Witness ==
    /\ last.op = "load_data"
    /\ \E i, j \in 1..Len(tracker_data_repo.launches) :
           /\ i < j
           /\ tracker_data_repo.launches[i].rocket_name = NoName
           /\ tracker_data_repo.launches[i].rocket_id
                  \in DOMAIN tracker_data_repo.rockets
           /\ tracker_data_repo.launches[j].rocket_name = Name("Falcon 9")
           /\ tracker_data_repo.launches[j].rocket_id
                  = tracker_data_repo.launches[i].rocket_id

====
